---- MODULE Spec2Model ----
(***************************************************************************)
(* State-machine model of the "Spread Sheet" addon (src/__init__.py): the  *)
(* mirror rows for objects, pose bones and mesh elements, the change       *)
(* detector (selection_change_handler), the list refreshers, the row       *)
(* update callbacks, and the batch Apply / Clear operators.                *)
(*                                                                         *)
(* The host (scene objects, pose bones, edit meshes, selection, mode) is   *)
(* the environment.  Every code function is an operator from a world       *)
(* record to a world record; an action applies one of them to the current  *)
(* variables.                                                              *)
(***************************************************************************)
EXTENDS Integers, Sequences, FiniteSets, TLC

VARIABLES
    mode,                  \* context.mode
    active,                \* context.active_object (a name, or None)
    objects,               \* bpy.data.objects: name -> object record
    pose_bones,            \* armature name -> (bone name -> pose-bone record)
    bm,                    \* mesh name -> edit-mesh record (verts, edges, faces)
    mesh_select_mode,      \* context.tool_settings.mesh_select_mode
    scn,                   \* the addon's scalar scene properties
    spreadsheet_items,     \* scene.spreadsheet_items
    bone_items,            \* scene.bone_items
    vertex_items,          \* scene.vertex_items
    last_selected_names,   \* _spreadsheet_last_selected_names
    last_transforms,       \* _spreadsheet_last_transforms
    dirty,                 \* a host update notification is pending
    fuel,                  \* environment steps left
    last                   \* history: the last operation, its inputs, the world before it

vars == <<mode, active, objects, pose_bones, bm, mesh_select_mode, scn,
          spreadsheet_items, bone_items, vertex_items,
          last_selected_names, last_transforms, dirty, fuel, last>>

---------------------------------------------------------------------------
(* Bounds *)

\* Environment steps (host changes, panel toggles, button presses) in a behaviour of
\* Spec, of SpecObject and of SpecPose.
MaxSteps == 2
MaxObjectSteps == 3
MaxPoseSteps == 3

\* Environment steps in a behaviour of SpecWrite.
MaxWriteSteps == 3

\* Environment steps in a behaviour of SpecModes.
MaxModeSteps == 3

\* Environment steps in a behaviour of SpecEdit.
MaxEditSteps == 3

---------------------------------------------------------------------------
(* Values *)

None == "None"

Channels == {"loc", "rot", "scale"}

\* Python's string order on the names that occur (sorted(..., key=name)).
NameOrder == <<"A", "B", "C", "Rig", "b1", "b2">>

\* The order in which the host enumerates objects (context.selected_objects).
HostOrder == <<"Rig", "C", "B", "A">>

ZeroVec == <<0, 0, 0>>
OneVec == <<1, 1, 1>>
ZeroQuat == <<0, 0, 0, 0>>
IdentityQuat == <<1, 0, 0, 0>>

\* One non-identity value per channel, for the host to move things to.
OtherLoc == <<2, 0, 0>>
OtherEuler == <<0, 0, 1>>
OtherQuat == <<0, 1, 0, 0>>
OtherScale == <<2, 2, 2>>

Range(s) == {s[i] : i \in 1..Len(s)}

\* sorted(xs, key=lambda x: x.name) on a collection of distinct names.
sorted(names) == SelectSeq(NameOrder, LAMBDA n : n \in names)

\* The host's own enumeration order of a set of object names.
host_order(names) == SelectSeq(HostOrder, LAMBDA n : n \in names)

---------------------------------------------------------------------------
(* The world record: everything the code reads or writes. *)

World ==
    [mode |-> mode, active |-> active, objects |-> objects,
     pose_bones |-> pose_bones, bm |-> bm,
     mesh_select_mode |-> mesh_select_mode, scn |-> scn,
     spreadsheet_items |-> spreadsheet_items, bone_items |-> bone_items,
     vertex_items |-> vertex_items,
     last_selected_names |-> last_selected_names,
     last_transforms |-> last_transforms]

Commit(w) ==
    /\ mode' = w.mode
    /\ active' = w.active
    /\ objects' = w.objects
    /\ pose_bones' = w.pose_bones
    /\ bm' = w.bm
    /\ mesh_select_mode' = w.mesh_select_mode
    /\ scn' = w.scn
    /\ spreadsheet_items' = w.spreadsheet_items
    /\ bone_items' = w.bone_items
    /\ vertex_items' = w.vertex_items
    /\ last_selected_names' = w.last_selected_names
    /\ last_transforms' = w.last_transforms

\* context.selected_objects, in the host's order.
selected_objects(w) ==
    host_order({n \in DOMAIN w.objects : w.objects[n].selected})

\* context.selected_pose_bones: the selected bones of the armature in pose mode.
selected_pose_bones(w) ==
    IF w.active # None /\ w.active \in DOMAIN w.pose_bones
       /\ w.objects[w.active].mode = "POSE"
    THEN {b \in DOMAIN w.pose_bones[w.active] : w.pose_bones[w.active][b].selected}
    ELSE {}

---------------------------------------------------------------------------
(* Property groups: a freshly added row holds the property defaults. *)

NewSpreadSheetItem ==
    [obj |-> None, location |-> ZeroVec, rotation |-> ZeroVec,
     rotation_quaternion |-> ZeroQuat, scale |-> ZeroVec,
     chk_loc |-> TRUE, chk_rot |-> TRUE, chk_scale |-> TRUE]

\* A callback that keeps the value in the row and does not pass it on.
update_location_dropped(w, i) == w

\* SpreadSheetItem.update_location
update_location(w, i) ==
    LET item == w.spreadsheet_items[i] IN
    IF item.obj # None
    THEN [w EXCEPT !.objects[item.obj].location = item.location]
    ELSE w

\* SpreadSheetItem.update_rotation
update_rotation(w, i) ==
    LET item == w.spreadsheet_items[i] IN
    IF item.obj # None
    THEN IF w.objects[item.obj].rotation_mode = "QUATERNION"
         THEN [w EXCEPT !.objects[item.obj].rotation_quaternion = item.rotation_quaternion]
         ELSE [w EXCEPT !.objects[item.obj].rotation_euler = item.rotation]
    ELSE w

\* SpreadSheetItem.update_scale
update_scale(w, i) ==
    LET item == w.spreadsheet_items[i] IN
    IF item.obj # None
    THEN [w EXCEPT !.objects[item.obj].scale = item.scale]
    ELSE w

\* Assignments to a row's properties: the store, then the property's update callback.
set_item_location(w, i, v) ==
    update_location([w EXCEPT !.spreadsheet_items[i].location = v], i)

set_item_rotation(w, i, v) ==
    update_rotation([w EXCEPT !.spreadsheet_items[i].rotation = v], i)

set_item_rotation_quaternion(w, i, v) ==
    update_rotation([w EXCEPT !.spreadsheet_items[i].rotation_quaternion = v], i)

set_item_scale(w, i, v) ==
    update_scale([w EXCEPT !.spreadsheet_items[i].scale = v], i)

---------------------------------------------------------------------------
(* refresh_object_list *)

\* The dict comprehension {item.obj.name: (chk_loc, chk_rot, chk_scale) for item in items if item.obj};
\* a later row of the same key overwrites an earlier one.
object_checkbox_states(items) ==
    LET live == {i \in 1..Len(items) : items[i].obj # None}
        keys == {items[i].obj : i \in live}
    IN [n \in keys |->
          LET i == CHOOSE j \in live : /\ items[j].obj = n
                                       /\ \A k \in live : items[k].obj = n => k <= j
          IN <<items[i].chk_loc, items[i].chk_rot, items[i].chk_scale>>]

\* The steps of the loop body "for obj in sorted_objects" of refresh_object_list; the
\* row being filled is the last one.
\* "item = items.add(); item.obj = obj"
add_object_row(w, name) ==
    [w EXCEPT !.spreadsheet_items = Append(@, [NewSpreadSheetItem EXCEPT !.obj = name])]

\* "item.location = obj.location"
copy_object_location(w, name) ==
    set_item_location(w, Len(w.spreadsheet_items), w.objects[name].location)

\* "if obj.rotation_mode == 'QUATERNION': item.rotation_quaternion = ... else: item.rotation = ..."
copy_object_rotation(w, name) ==
    IF w.objects[name].rotation_mode = "QUATERNION"
    THEN set_item_rotation_quaternion(w, Len(w.spreadsheet_items),
                                      w.objects[name].rotation_quaternion)
    ELSE set_item_rotation(w, Len(w.spreadsheet_items), w.objects[name].rotation_euler)

\* "item.scale = obj.scale"
copy_object_scale(w, name) ==
    set_item_scale(w, Len(w.spreadsheet_items), w.objects[name].scale)

\* "item.chk_loc, item.chk_rot, item.chk_scale = ..." on the last row
set_object_flags(w, chk) ==
    [w EXCEPT !.spreadsheet_items[Len(w.spreadsheet_items)].chk_loc = chk[1],
              !.spreadsheet_items[Len(w.spreadsheet_items)].chk_rot = chk[2],
              !.spreadsheet_items[Len(w.spreadsheet_items)].chk_scale = chk[3]]

\* A refresh that forgets the flag backup: every row keeps the defaults.
restore_object_flags_dropped(w, name, checkbox_states) == w

\* "if obj.name in checkbox_states: item.chk_loc, item.chk_rot, item.chk_scale = ..."
restore_object_flags(w, name, checkbox_states) ==
    IF name \in DOMAIN checkbox_states
    THEN set_object_flags(w, checkbox_states[name])
    ELSE w

refresh_object_row(w, name, checkbox_states) ==
    restore_object_flags(
        copy_object_scale(
            copy_object_rotation(
                copy_object_location(add_object_row(w, name), name), name), name),
        name, checkbox_states)

RECURSIVE refresh_object_rows(_, _, _)
refresh_object_rows(w, names, checkbox_states) ==
    IF names = <<>> THEN w
    ELSE refresh_object_rows(refresh_object_row(w, Head(names), checkbox_states),
                             Tail(names), checkbox_states)

\* A refresh that takes the selection in the host's order, without sorting by name.
refresh_object_list_unsorted(w) ==
    refresh_object_rows([w EXCEPT !.spreadsheet_items = <<>>],
                        selected_objects(w),
                        object_checkbox_states(w.spreadsheet_items))

refresh_object_list(w) ==
    refresh_object_rows([w EXCEPT !.spreadsheet_items = <<>>],
                        sorted(Range(selected_objects(w))),
                        object_checkbox_states(w.spreadsheet_items))

---------------------------------------------------------------------------
(* Bone rows and the undo-registering set-bone operators *)

NewBoneSpreadSheetItem ==
    [armature_obj |-> None, bone_name |-> "",
     bone_location |-> ZeroVec, bone_rotation |-> ZeroVec,
     bone_rotation_quaternion |-> ZeroQuat, bone_scale |-> ZeroVec,
     bone_chk_loc |-> TRUE, bone_chk_rot |-> TRUE, bone_chk_scale |-> TRUE]

\* A guard that accepts an armature in any mode.
set_bone_target_ok_any_mode(w, armature_name, bone_name) ==
    /\ armature_name \in DOMAIN w.objects
    /\ w.objects[armature_name].type = "ARMATURE"
    /\ armature_name \in DOMAIN w.pose_bones
    /\ bone_name \in DOMAIN w.pose_bones[armature_name]

\* The guard shared by the four SPREADSHEET_OT_SetBone*.execute:
\* bpy.data.objects.get(armature_name) is a pose-mode armature that has the bone.
set_bone_target_ok(w, armature_name, bone_name) ==
    /\ armature_name \in DOMAIN w.objects
    /\ w.objects[armature_name].type = "ARMATURE"
    /\ w.objects[armature_name].mode = "POSE"
    /\ armature_name \in DOMAIN w.pose_bones
    /\ bone_name \in DOMAIN w.pose_bones[armature_name]

\* SPREADSHEET_OT_SetBoneLocation.execute
SetBoneLocation(w, armature_name, bone_name, loc) ==
    IF set_bone_target_ok(w, armature_name, bone_name)
    THEN [w |-> [w EXCEPT !.pose_bones[armature_name][bone_name].location = loc],
          ret |-> "FINISHED"]
    ELSE [w |-> w, ret |-> "CANCELLED"]

\* SPREADSHEET_OT_SetBoneRotationEuler.execute
SetBoneRotationEuler(w, armature_name, bone_name, rot) ==
    IF set_bone_target_ok(w, armature_name, bone_name)
    THEN [w |-> [w EXCEPT !.pose_bones[armature_name][bone_name].rotation_euler = rot],
          ret |-> "FINISHED"]
    ELSE [w |-> w, ret |-> "CANCELLED"]

\* SPREADSHEET_OT_SetBoneRotationQuaternion.execute
SetBoneRotationQuaternion(w, armature_name, bone_name, quat) ==
    IF set_bone_target_ok(w, armature_name, bone_name)
    THEN [w |-> [w EXCEPT !.pose_bones[armature_name][bone_name].rotation_quaternion = quat],
          ret |-> "FINISHED"]
    ELSE [w |-> w, ret |-> "CANCELLED"]

\* SPREADSHEET_OT_SetBoneScale.execute
SetBoneScale(w, armature_name, bone_name, scale) ==
    IF set_bone_target_ok(w, armature_name, bone_name)
    THEN [w |-> [w EXCEPT !.pose_bones[armature_name][bone_name].scale = scale],
          ret |-> "FINISHED"]
    ELSE [w |-> w, ret |-> "CANCELLED"]

\* The guard of the three BoneSpreadSheetItem.update_bone_* callbacks.
bone_item_resolves(w, item) ==
    /\ item.armature_obj # None
    /\ w.objects[item.armature_obj].type = "ARMATURE"
    /\ w.objects[item.armature_obj].mode = "POSE"
    /\ item.bone_name # ""
    /\ item.armature_obj \in DOMAIN w.pose_bones
    /\ item.bone_name \in DOMAIN w.pose_bones[item.armature_obj]

\* BoneSpreadSheetItem.update_bone_location
update_bone_location(w, i) ==
    LET item == w.bone_items[i] IN
    IF bone_item_resolves(w, item)
    THEN SetBoneLocation(w, item.armature_obj, item.bone_name, item.bone_location).w
    ELSE w

\* BoneSpreadSheetItem.update_bone_rotation
update_bone_rotation(w, i) ==
    LET item == w.bone_items[i] IN
    IF bone_item_resolves(w, item)
    THEN IF w.pose_bones[item.armature_obj][item.bone_name].rotation_mode = "QUATERNION"
         THEN SetBoneRotationQuaternion(w, item.armature_obj, item.bone_name,
                                        item.bone_rotation_quaternion).w
         ELSE SetBoneRotationEuler(w, item.armature_obj, item.bone_name,
                                   item.bone_rotation).w
    ELSE w

\* BoneSpreadSheetItem.update_bone_scale
update_bone_scale(w, i) ==
    LET item == w.bone_items[i] IN
    IF bone_item_resolves(w, item)
    THEN SetBoneScale(w, item.armature_obj, item.bone_name, item.bone_scale).w
    ELSE w

set_bone_item_location(w, i, v) ==
    update_bone_location([w EXCEPT !.bone_items[i].bone_location = v], i)

set_bone_item_rotation(w, i, v) ==
    update_bone_rotation([w EXCEPT !.bone_items[i].bone_rotation = v], i)

set_bone_item_rotation_quaternion(w, i, v) ==
    update_bone_rotation([w EXCEPT !.bone_items[i].bone_rotation_quaternion = v], i)

set_bone_item_scale(w, i, v) ==
    update_bone_scale([w EXCEPT !.bone_items[i].bone_scale = v], i)

---------------------------------------------------------------------------
(* refresh_bone_list *)

\* {item.bone_name: (...) for item in items if item.armature_obj and item.bone_name}
bone_checkbox_states(items) ==
    LET live == {i \in 1..Len(items) :
                    items[i].armature_obj # None /\ items[i].bone_name # ""}
        keys == {items[i].bone_name : i \in live}
    IN [n \in keys |->
          LET i == CHOOSE j \in live : /\ items[j].bone_name = n
                                       /\ \A k \in live : items[k].bone_name = n => k <= j
          IN <<items[i].bone_chk_loc, items[i].bone_chk_rot, items[i].bone_chk_scale>>]

\* The steps of the loop body "for bone in sorted_bones" of refresh_bone_list; the row
\* being filled is the last one.
\* "item = items.add(); item.armature_obj = armature_obj; item.bone_name = bone.name"
add_bone_row(w, armature_obj, name) ==
    [w EXCEPT !.bone_items =
        Append(@, [NewBoneSpreadSheetItem EXCEPT !.armature_obj = armature_obj,
                                                 !.bone_name = name])]

\* "item.bone_location = bone.location.copy()"
copy_bone_location(w, armature_obj, name) ==
    set_bone_item_location(w, Len(w.bone_items), w.pose_bones[armature_obj][name].location)

\* "if bone.rotation_mode == 'QUATERNION': ... else: ..."
copy_bone_rotation(w, armature_obj, name) ==
    IF w.pose_bones[armature_obj][name].rotation_mode = "QUATERNION"
    THEN set_bone_item_rotation_quaternion(
             w, Len(w.bone_items), w.pose_bones[armature_obj][name].rotation_quaternion)
    ELSE set_bone_item_rotation(
             w, Len(w.bone_items), w.pose_bones[armature_obj][name].rotation_euler)

\* "item.bone_scale = bone.scale.copy()"
copy_bone_scale(w, armature_obj, name) ==
    set_bone_item_scale(w, Len(w.bone_items), w.pose_bones[armature_obj][name].scale)

\* "if bone.name in checkbox_states: item.bone_chk_loc, ... = checkbox_states[bone.name]"
restore_bone_flags(w, name, checkbox_states) ==
    IF name \in DOMAIN checkbox_states
    THEN [w EXCEPT !.bone_items[Len(w.bone_items)].bone_chk_loc = checkbox_states[name][1],
                   !.bone_items[Len(w.bone_items)].bone_chk_rot = checkbox_states[name][2],
                   !.bone_items[Len(w.bone_items)].bone_chk_scale = checkbox_states[name][3]]
    ELSE w

refresh_bone_row(w, armature_obj, name, checkbox_states) ==
    restore_bone_flags(
        copy_bone_scale(
            copy_bone_rotation(
                copy_bone_location(add_bone_row(w, armature_obj, name), armature_obj, name),
                armature_obj, name),
            armature_obj, name),
        name, checkbox_states)

RECURSIVE refresh_bone_rows(_, _, _, _)
refresh_bone_rows(w, armature_obj, names, checkbox_states) ==
    IF names = <<>> THEN w
    ELSE refresh_bone_rows(refresh_bone_row(w, armature_obj, Head(names), checkbox_states),
                           armature_obj, Tail(names), checkbox_states)

\* "context.active_object and context.active_object.type == 'ARMATURE'"
active_is_armature(w) ==
    w.active # None /\ w.objects[w.active].type = "ARMATURE"

\* A refresh that does not empty the list before it adds the rows.
refresh_bone_list_appending(w) ==
    IF ~active_is_armature(w) \/ w.mode # "POSE"
    THEN [w EXCEPT !.bone_items = <<>>]
    ELSE refresh_bone_rows(w, w.active, sorted(selected_pose_bones(w)),
                           bone_checkbox_states(w.bone_items))

refresh_bone_list(w) ==
    IF ~active_is_armature(w) \/ w.mode # "POSE"
    THEN [w EXCEPT !.bone_items = <<>>]
    ELSE refresh_bone_rows([w EXCEPT !.bone_items = <<>>], w.active,
                           sorted(selected_pose_bones(w)),
                           bone_checkbox_states(w.bone_items))

---------------------------------------------------------------------------
(* Mesh-element rows *)

NewMeshElementItem ==
    [index |-> "", source_object |-> "", x |-> 0, y |-> 0, z |-> 0, is_sharp |-> FALSE]

\* str(i) for the element indices that occur, and int(s), its partial inverse
\* (int raises ValueError on anything else, the empty default included).
Digits == <<"0", "1", "2", "3">>
str(i) == Digits[i + 1]
int_ok(s) == \E k \in 1..Len(Digits) : Digits[k] = s
int(s) == (CHOOSE k \in 1..Len(Digits) : Digits[k] = s) - 1

\* bm.verts[n] / bm.edges[n]: an IndexError unless the lookup table is valid and
\* n is in range.
index_ok(mesh, elems, n) == mesh.lookup_valid /\ n + 1 \in 1..Len(elems)

\* bpy.data.objects.get(name) is a mesh in edit mode.
edit_mesh_resolves(w, name) ==
    /\ name \in DOMAIN w.objects
    /\ w.objects[name].type = "MESH"
    /\ w.objects[name].mode = "EDIT"
    /\ name \in DOMAIN w.bm

\* A callback that writes the vertex whatever the display toggle says.
update_coord_world_writable(w, i) ==
    LET item == w.vertex_items[i] IN
    IF edit_mesh_resolves(w, item.source_object)
    THEN IF int_ok(item.index)
            /\ index_ok(w.bm[item.source_object],
                        w.bm[item.source_object].verts, int(item.index))
         THEN [w EXCEPT !.bm[item.source_object].verts[int(item.index) + 1].co =
                            <<item.x, item.y, item.z>>]
         ELSE w
    ELSE w

\* A callback that writes the last vertex when the row's index is past the end.
update_coord_clamped(w, i) ==
    LET item == w.vertex_items[i] IN
    IF w.scn.spreadsheet_show_world_coords THEN w
    ELSE IF edit_mesh_resolves(w, item.source_object)
         THEN IF int_ok(item.index) /\ w.bm[item.source_object].lookup_valid
                 /\ w.bm[item.source_object].verts # <<>>
              THEN [w EXCEPT !.bm[item.source_object].verts[
                                 IF int(item.index) + 1 > Len(w.bm[item.source_object].verts)
                                 THEN Len(w.bm[item.source_object].verts)
                                 ELSE int(item.index) + 1].co =
                                 <<item.x, item.y, item.z>>]
              ELSE w
         ELSE w

\* MeshElementItem.update_coord
update_coord(w, i) ==
    LET item == w.vertex_items[i] IN
    IF w.scn.spreadsheet_show_world_coords THEN w
    ELSE IF edit_mesh_resolves(w, item.source_object)
         THEN IF int_ok(item.index)
                 /\ index_ok(w.bm[item.source_object],
                             w.bm[item.source_object].verts, int(item.index))
              THEN [w EXCEPT !.bm[item.source_object].verts[int(item.index) + 1].co =
                                 <<item.x, item.y, item.z>>]
              ELSE w   \* except Exception: pass
         ELSE w

\* MeshElementItem.update_sharp
update_sharp(w, i) ==
    LET item == w.vertex_items[i] IN
    IF edit_mesh_resolves(w, item.source_object)
    THEN IF int_ok(item.index)
            /\ index_ok(w.bm[item.source_object],
                        w.bm[item.source_object].edges, int(item.index))
         THEN [w EXCEPT !.bm[item.source_object].edges[int(item.index) + 1].smooth =
                            ~item.is_sharp]
         ELSE w   \* except Exception: pass
    ELSE w

set_vertex_item_x(w, i, v) == update_coord([w EXCEPT !.vertex_items[i].x = v], i)
set_vertex_item_y(w, i, v) == update_coord([w EXCEPT !.vertex_items[i].y = v], i)
set_vertex_item_z(w, i, v) == update_coord([w EXCEPT !.vertex_items[i].z = v], i)
set_vertex_item_is_sharp(w, i, v) ==
    update_sharp([w EXCEPT !.vertex_items[i].is_sharp = v], i)

---------------------------------------------------------------------------
(* refresh_mesh_element_list *)

\* item = scn.vertex_items.add(); item.index = str(k); item.source_object = obj.name
add_element_row(w, name, k) ==
    [w EXCEPT !.vertex_items =
        Append(@, [NewMeshElementItem EXCEPT !.index = str(k), !.source_object = name])]

\* "item.x, item.y, item.z = v.co": the right-hand side is unpacked first (co), then
\* the three properties of the last row are assigned left to right, each firing
\* update_coord.
\* The assignment of the first two coordinates only.
assign_xyz_without_z(w, co) ==
    set_vertex_item_y(
        set_vertex_item_x(w, Len(w.vertex_items), co[1]),
        Len(w.vertex_items), co[2])

assign_xyz(w, co) ==
    set_vertex_item_z(
        set_vertex_item_y(
            set_vertex_item_x(w, Len(w.vertex_items), co[1]),
            Len(w.vertex_items), co[2]),
        Len(w.vertex_items), co[3])

refresh_vertex_row(w, name, k) ==
    assign_xyz(add_element_row(w, name, k), w.bm[name].verts[k + 1].co)

\* "item.is_sharp = not e.smooth" on the last row
assign_is_sharp(w, name, k) ==
    set_vertex_item_is_sharp(w, Len(w.vertex_items), ~w.bm[name].edges[k + 1].smooth)

refresh_edge_row(w, name, k) == assign_is_sharp(add_element_row(w, name, k), name, k)

refresh_face_row(w, name, k) == add_element_row(w, name, k)

\* "for v in bm.verts: if v.select: ..." (k is the 0-based element index)
RECURSIVE refresh_vertex_rows(_, _, _)
refresh_vertex_rows(w, name, k) ==
    IF k >= Len(w.bm[name].verts) THEN w
    ELSE refresh_vertex_rows(
             IF w.bm[name].verts[k + 1].select THEN refresh_vertex_row(w, name, k) ELSE w,
             name, k + 1)

RECURSIVE refresh_edge_rows(_, _, _)
refresh_edge_rows(w, name, k) ==
    IF k >= Len(w.bm[name].edges) THEN w
    ELSE refresh_edge_rows(
             IF w.bm[name].edges[k + 1].select THEN refresh_edge_row(w, name, k) ELSE w,
             name, k + 1)

RECURSIVE refresh_face_rows(_, _, _)
refresh_face_rows(w, name, k) ==
    IF k >= Len(w.bm[name].faces) THEN w
    ELSE refresh_face_rows(
             IF w.bm[name].faces[k + 1].select THEN refresh_face_row(w, name, k) ELSE w,
             name, k + 1)

\* A loop body that looks at the edge flag of the selection mode before the vertex flag.
refresh_mesh_object_edges_first(w, name) ==
    IF w.objects[name].type # "MESH" \/ w.objects[name].mode # "EDIT" THEN w
    ELSE IF w.mesh_select_mode[2] THEN refresh_edge_rows(w, name, 0)
    ELSE IF w.mesh_select_mode[1] THEN refresh_vertex_rows(w, name, 0)
    ELSE IF w.mesh_select_mode[3] THEN refresh_face_rows(w, name, 0)
    ELSE w

\* The loop body "for obj in context.selected_objects" of refresh_mesh_element_list.
refresh_mesh_object(w, name) ==
    IF w.objects[name].type # "MESH" \/ w.objects[name].mode # "EDIT" THEN w
    ELSE IF w.mesh_select_mode[1] THEN refresh_vertex_rows(w, name, 0)
    ELSE IF w.mesh_select_mode[2] THEN refresh_edge_rows(w, name, 0)
    ELSE IF w.mesh_select_mode[3] THEN refresh_face_rows(w, name, 0)
    ELSE w

RECURSIVE refresh_mesh_objects(_, _)
refresh_mesh_objects(w, names) ==
    IF names = <<>> THEN w
    ELSE refresh_mesh_objects(refresh_mesh_object(w, Head(names)), Tail(names))

refresh_mesh_element_list(w) ==
    refresh_mesh_objects([w EXCEPT !.vertex_items = <<>>, !.bone_items = <<>>],
                         selected_objects(w))

---------------------------------------------------------------------------
(* selection_change_handler *)

\* (tuple(location), tuple(rotation_quaternion) if rotation_mode == 'QUATERNION'
\*  else tuple(rotation_euler), tuple(scale))
transform_tuple(e) ==
    <<e.location,
      IF e.rotation_mode = "QUATERNION" THEN e.rotation_quaternion ELSE e.rotation_euler,
      e.scale>>

\* "current_selected = set(obj.name for obj in context.selected_objects)"
current_selected_of(w) == Range(selected_objects(w))

\* "current_transforms = {obj.name: (...) for obj in context.selected_objects}"
current_transforms_of(w) ==
    [n \in Range(selected_objects(w)) |-> transform_tuple(w.objects[n])]

\* "current_bone_transforms[bone.name] = (loc, rot, scale)"
current_bone_transforms_of(w) ==
    [n \in selected_pose_bones(w) |-> transform_tuple(w.pose_bones[w.active][n])]

\* "_spreadsheet_last_selected_names = ...; _spreadsheet_last_transforms = ..."
with_snapshot(w, names, transforms) ==
    [w EXCEPT !.last_selected_names = names, !.last_transforms = transforms]

\* A change detector that compares the selected names only.
snapshot_differs_names_only(w, names, transforms) == names # w.last_selected_names

\* "if (current_selected != _spreadsheet_last_selected_names or
\*      current_transforms != _spreadsheet_last_transforms)"
snapshot_differs(w, names, transforms) ==
    names # w.last_selected_names \/ transforms # w.last_transforms

\* A change detector that leaves the bone rows alone outside pose mode.
clear_bone_items_skipped(w) == w

\* "if context.scene.bone_items: context.scene.bone_items.clear()"
clear_bone_items(w) == [w EXCEPT !.bone_items = <<>>]

\* The 'OBJECT' branch.
handler_object_mode(w) ==
    clear_bone_items(
        IF snapshot_differs(w, current_selected_of(w), current_transforms_of(w))
        THEN refresh_object_list(
                 with_snapshot(w, current_selected_of(w), current_transforms_of(w)))
        ELSE w)

\* The 'EDIT_MESH' branch.
handler_edit_mesh_mode(w) ==
    clear_bone_items(
        IF w.scn.show_spreadsheet_in_edit_mode
        THEN refresh_mesh_element_list(w)
        ELSE [w EXCEPT !.vertex_items = <<>>])

clear_object_and_vertex_items(w) ==
    [w EXCEPT !.spreadsheet_items = <<>>, !.vertex_items = <<>>]

\* The 'POSE' branch.
handler_pose_mode(w) ==
    clear_object_and_vertex_items(
        IF active_is_armature(w)
           /\ snapshot_differs(w, selected_pose_bones(w), current_bone_transforms_of(w))
        THEN refresh_bone_list(
                 with_snapshot(w, selected_pose_bones(w), current_bone_transforms_of(w)))
        ELSE w)

\* The final else branch.
handler_other_mode(w) ==
    [w EXCEPT !.spreadsheet_items = <<>>, !.vertex_items = <<>>, !.bone_items = <<>>]

selection_change_handler(w) ==
    IF w.mode = "OBJECT" THEN handler_object_mode(w)
    ELSE IF w.mode = "EDIT_MESH" THEN handler_edit_mesh_mode(w)
    ELSE IF w.mode = "POSE" THEN handler_pose_mode(w)
    ELSE handler_other_mode(w)

---------------------------------------------------------------------------
(* Host operators the addon invokes *)

\* bpy.ops.object.select_all(action='DESELECT')
select_all_deselect(w) ==
    [w EXCEPT !.objects = [n \in DOMAIN @ |-> [@[n] EXCEPT !.selected = FALSE]]]

\* "for obj in objects_to_apply: obj.select_set(True)"
select_set_all(w, names) ==
    [w EXCEPT !.objects =
        [n \in DOMAIN @ |-> IF n \in Range(names) THEN [@[n] EXCEPT !.selected = TRUE]
                            ELSE @[n]]]

\* The identity value the host leaves in a baked channel.
baked(e, transform) ==
    IF transform = "loc" THEN [e EXCEPT !.location = ZeroVec]
    ELSE IF transform = "rot"
         THEN [e EXCEPT !.rotation_euler = ZeroVec, !.rotation_quaternion = IdentityQuat]
    ELSE IF transform = "scale" THEN [e EXCEPT !.scale = OneVec]
    ELSE e

\* bpy.ops.object.transform_apply(location=.., rotation=.., scale=..) when it does not
\* raise: the one channel of every selected object is folded into its data and reset.
transform_apply(w, transform) ==
    [w EXCEPT !.objects =
        [n \in DOMAIN @ |-> IF @[n].selected THEN baked(@[n], transform) ELSE @[n]]]

---------------------------------------------------------------------------
(* SPREADSHEET_OT_ApplyTrans.execute *)

item_chk(item, transform) ==
    IF transform = "loc" THEN item.chk_loc
    ELSE IF transform = "rot" THEN item.chk_rot
    ELSE IF transform = "scale" THEN item.chk_scale
    ELSE TRUE

\* "object_backup = [item.obj for item in items if item.obj]"
object_backup_of(items) ==
    LET live == SelectSeq(items, LAMBDA item : item.obj # None)
    IN [i \in 1..Len(live) |-> live[i].obj]

\* A candidate list that ignores the active-only filter.
objects_to_apply_unfiltered(items, transform, active_only) ==
    LET kept == SelectSeq(items, LAMBDA item : item.obj # None)
    IN [i \in 1..Len(kept) |-> kept[i].obj]

\* The loop that builds objects_to_apply.
objects_to_apply_of(items, transform, active_only) ==
    LET kept == SelectSeq(items, LAMBDA item :
                    /\ item.obj # None
                    /\ (active_only => item_chk(item, transform)))
    IN [i \in 1..Len(kept) |-> kept[i].obj]

\* "Restore checkbox states": every row whose object name is in the backup.
restore_checkboxes(w, checkbox_backup) ==
    LET items == w.spreadsheet_items
        restored(item) ==
            IF item.obj # None /\ item.obj \in DOMAIN checkbox_backup
            THEN [item EXCEPT !.chk_loc = checkbox_backup[item.obj][1],
                              !.chk_rot = checkbox_backup[item.obj][2],
                              !.chk_scale = checkbox_backup[item.obj][3]]
            ELSE item
    IN [w EXCEPT !.spreadsheet_items = [i \in 1..Len(items) |-> restored(items[i])]]

\* A full-list restore that gives every restored row the default flags.
backup_get_defaults(checkbox_backup, name) == <<TRUE, TRUE, TRUE>>

\* The flags "checkbox_backup.get(obj.name, (True, True, True))".
backup_get(checkbox_backup, name) ==
    IF name \in DOMAIN checkbox_backup THEN checkbox_backup[name]
    ELSE <<TRUE, TRUE, TRUE>>

\* One pass of "for obj in object_backup" of the full-list restore.
restore_object_row(w, name, checkbox_backup) ==
    set_object_flags(
        copy_object_scale(
            copy_object_rotation(
                copy_object_location(add_object_row(w, name), name), name), name),
        backup_get(checkbox_backup, name))

RECURSIVE restore_object_rows(_, _, _)
restore_object_rows(w, names, checkbox_backup) ==
    IF names = <<>> THEN w
    ELSE restore_object_rows(restore_object_row(w, Head(names), checkbox_backup),
                             Tail(names), checkbox_backup)

\* An execute without the full-list restore.
restore_full_list_skipped(w, object_backup, checkbox_backup) == w

\* "Restore full list if Active Only caused a refresh"
restore_full_list(w, object_backup, checkbox_backup) ==
    restore_object_rows([w EXCEPT !.spreadsheet_items = <<>>], object_backup,
                        checkbox_backup)

\* "bpy.ops.object.select_all(action='DESELECT'); for obj in objects_to_apply:
\*  obj.select_set(True); if objects_to_apply: ...objects.active = objects_to_apply[0]"
select_for_apply(w, objects_to_apply) ==
    [select_set_all(select_all_deselect(w), objects_to_apply)
        EXCEPT !.active = IF objects_to_apply # <<>> THEN objects_to_apply[1] ELSE @]

\* A notification the host may deliver while it evaluates the scene.
notified(w, notify) == IF notify THEN selection_change_handler(w) ELSE w

\* The try block: transform_apply on the selection, unless it raises.
try_transform_apply(w, transform, raises, notify_before, notify_after) ==
    IF raises THEN notified(w, notify_before)
    ELSE notified(transform_apply(notified(w, notify_before), transform), notify_after)

\* The two restore steps that end execute.
restore_after_apply(w, active_only, object_backup, checkbox_backup) ==
    IF active_only
    THEN restore_full_list(restore_checkboxes(w, checkbox_backup), object_backup,
                           checkbox_backup)
    ELSE restore_checkboxes(w, checkbox_backup)

apply_to(w, objects_to_apply, transform, raises, notify_before, notify_after) ==
    IF objects_to_apply # <<>>
    THEN try_transform_apply(select_for_apply(w, objects_to_apply), transform, raises,
                             notify_before, notify_after)
    ELSE select_for_apply(w, objects_to_apply)

\* An execute that reports success whatever happened.
apply_reports_success(objects_to_apply, raises) == <<"INFO">>

apply_reports(objects_to_apply, raises) ==
    IF objects_to_apply = <<>> THEN <<"WARNING">>
    ELSE IF raises THEN <<"WARNING", "WARNING">>
    ELSE <<"INFO">>

\* execute(self, context) with self.transform = transform.  The host decides three
\* things: whether transform_apply raises, and whether evaluating the scene inside
\* transform_apply delivers an update notification to selection_change_handler
\* before and/or after the bake.
ApplyTrans(w, transform, raises, notify_before, notify_after) ==
    [w |-> restore_after_apply(
               apply_to(w,
                        objects_to_apply_of(w.spreadsheet_items, transform,
                                            w.scn.active_only[transform]),
                        transform, raises, notify_before, notify_after),
               w.scn.active_only[transform],
               object_backup_of(w.spreadsheet_items),
               object_checkbox_states(w.spreadsheet_items)),
     ret |-> "FINISHED",
     reports |-> apply_reports(
                     objects_to_apply_of(w.spreadsheet_items, transform,
                                         w.scn.active_only[transform]),
                     raises)]

---------------------------------------------------------------------------
(* SPREADSHEET_OT_ClearBoneTrans.execute *)

bone_item_chk(item, transform) ==
    IF transform = "loc" THEN item.bone_chk_loc
    ELSE IF transform = "rot" THEN item.bone_chk_rot
    ELSE IF transform = "scale" THEN item.bone_chk_scale
    ELSE TRUE

\* The loop that builds bones_to_clear (as bone names of armature_obj).
bones_to_clear_of(w, armature_obj, transform, active_only) ==
    LET kept == SelectSeq(w.bone_items, LAMBDA item :
                    /\ item.armature_obj # None
                    /\ item.armature_obj = armature_obj
                    /\ item.bone_name # ""
                    /\ item.bone_name \in DOMAIN w.pose_bones[armature_obj]
                    /\ (active_only => bone_item_chk(item, transform)))
    IN [i \in 1..Len(kept) |-> kept[i].bone_name]

\* A clear that resets the euler rotation whatever the bone's rotation mode.
cleared_bone_euler_only(b, transform) ==
    IF transform = "loc" THEN [b EXCEPT !.location = ZeroVec]
    ELSE IF transform = "rot" THEN [b EXCEPT !.rotation_euler = ZeroVec]
    ELSE IF transform = "scale" THEN [b EXCEPT !.scale = OneVec]
    ELSE b

\* The body of "for bone in bones_to_clear".
cleared_bone(b, transform) ==
    IF transform = "loc" THEN [b EXCEPT !.location = ZeroVec]
    ELSE IF transform = "rot"
         THEN IF b.rotation_mode = "QUATERNION"
              THEN [b EXCEPT !.rotation_quaternion = IdentityQuat]
              ELSE [b EXCEPT !.rotation_euler = ZeroVec]
    ELSE IF transform = "scale" THEN [b EXCEPT !.scale = OneVec]
    ELSE b

\* "for bone in bones_to_clear: ..." on the active armature
clear_bones(w, bones_to_clear, transform) ==
    [w EXCEPT !.pose_bones[w.active] =
        [b \in DOMAIN @ |-> IF b \in Range(bones_to_clear)
                            THEN cleared_bone(@[b], transform) ELSE @[b]]]

\* A clear that does not refresh the bone list after it reset the bones.
clear_listed_unrefreshed(w, bones_to_clear, transform) ==
    IF bones_to_clear = <<>>
    THEN [w |-> w, ret |-> "CANCELLED", reports |-> <<"WARNING">>]
    ELSE [w |-> clear_bones(w, bones_to_clear, transform),
          ret |-> "FINISHED", reports |-> <<"INFO">>]

\* "if not bones_to_clear: report, return CANCELLED", else the clearing loop, the
\* report and the refresh.
clear_listed(w, bones_to_clear, transform) ==
    IF bones_to_clear = <<>>
    THEN [w |-> w, ret |-> "CANCELLED", reports |-> <<"WARNING">>]
    ELSE [w |-> refresh_bone_list(clear_bones(w, bones_to_clear, transform)),
          ret |-> "FINISHED", reports |-> <<"INFO">>]

\* An execute that warns outside pose mode but still finishes.
ClearBoneTrans_finishing(w, transform) ==
    IF ~active_is_armature(w) \/ w.mode # "POSE"
    THEN [w |-> w, ret |-> "FINISHED", reports |-> <<"WARNING">>]
    ELSE clear_listed(w,
                      bones_to_clear_of(w, w.active, transform,
                                        w.scn.active_only_bone[transform]),
                      transform)

\* execute(self, context) with self.transform = transform.
ClearBoneTrans(w, transform) ==
    IF ~active_is_armature(w) \/ w.mode # "POSE"
    THEN [w |-> w, ret |-> "CANCELLED", reports |-> <<"WARNING">>]
    ELSE clear_listed(w,
                      bones_to_clear_of(w, w.active, transform,
                                        w.scn.active_only_bone[transform]),
                      transform)

---------------------------------------------------------------------------
(* Assignments to the properties of a row, and the set-bone commands *)

\* A vector and a quaternion that nothing in the scene holds.
TypedVec == <<5, 6, 7>>
TypedQuat == <<0, 0, 1, 0>>

\* "item.<field> = v" on object row i: the store, then the property's update callback.
write_object_row(w, i, field, v) ==
    IF field = "location" THEN set_item_location(w, i, v)
    ELSE IF field = "rotation" THEN set_item_rotation(w, i, v)
    ELSE IF field = "rotation_quaternion" THEN set_item_rotation_quaternion(w, i, v)
    ELSE set_item_scale(w, i, v)

\* "item.<field> = v" on bone row i.
write_bone_row(w, i, field, v) ==
    IF field = "bone_location" THEN set_bone_item_location(w, i, v)
    ELSE IF field = "bone_rotation" THEN set_bone_item_rotation(w, i, v)
    ELSE IF field = "bone_rotation_quaternion"
         THEN set_bone_item_rotation_quaternion(w, i, v)
    ELSE set_bone_item_scale(w, i, v)

\* "item.<field> = v" on mesh-element row i.
write_element_row(w, i, field, v) ==
    IF field = "x" THEN set_vertex_item_x(w, i, v)
    ELSE IF field = "y" THEN set_vertex_item_y(w, i, v)
    ELSE IF field = "z" THEN set_vertex_item_z(w, i, v)
    ELSE set_vertex_item_is_sharp(w, i, v)

\* The value written to a field: a fresh one, or for the sharp flag its negation.
typed_value(w, i, field) ==
    IF field \in {"rotation_quaternion", "bone_rotation_quaternion"} THEN TypedQuat
    ELSE IF field \in {"x", "y", "z"} THEN TypedVec[1]
    ELSE IF field = "is_sharp" THEN ~w.vertex_items[i].is_sharp
    ELSE TypedVec

\* bl_idname and bl_options of the four set-bone operator classes.
SetBoneCommands ==
    {"set_bone_location", "set_bone_rotation_euler", "set_bone_rotation_quaternion",
     "set_bone_scale"}

bl_options(idname) == IF idname \in SetBoneCommands THEN {"UNDO", "INTERNAL"} ELSE {"UNDO"}

\* bpy.ops.spreadsheet.<idname>(armature_name=.., bone_name=.., <components>)
set_bone(w, idname, armature_name, bone_name, value) ==
    IF idname = "set_bone_location" THEN SetBoneLocation(w, armature_name, bone_name, value)
    ELSE IF idname = "set_bone_rotation_euler"
         THEN SetBoneRotationEuler(w, armature_name, bone_name, value)
    ELSE IF idname = "set_bone_rotation_quaternion"
         THEN SetBoneRotationQuaternion(w, armature_name, bone_name, value)
    ELSE SetBoneScale(w, armature_name, bone_name, value)

---------------------------------------------------------------------------
(* The scene the addon is registered into *)

MeshObject(rotation_mode) ==
    [type |-> "MESH", mode |-> "OBJECT", selected |-> FALSE,
     location |-> OtherLoc, rotation_mode |-> rotation_mode,
     rotation_euler |-> IF rotation_mode = "QUATERNION" THEN ZeroVec ELSE OtherEuler,
     rotation_quaternion |-> IF rotation_mode = "QUATERNION" THEN OtherQuat
                             ELSE IdentityQuat,
     scale |-> OtherScale]

ArmatureObject == [MeshObject("XYZ") EXCEPT !.type = "ARMATURE"]

PoseBone(rotation_mode) ==
    [selected |-> FALSE, location |-> OtherLoc, rotation_mode |-> rotation_mode,
     rotation_euler |-> IF rotation_mode = "QUATERNION" THEN ZeroVec ELSE OtherEuler,
     rotation_quaternion |-> IF rotation_mode = "QUATERNION" THEN OtherQuat
                             ELSE IdentityQuat,
     scale |-> OtherScale]

EditMeshA ==
    [lookup_valid |-> TRUE,
     verts |-> <<[co |-> <<1, 2, 3>>, select |-> FALSE],
                 [co |-> <<4, 5, 6>>, select |-> FALSE]>>,
     edges |-> <<[smooth |-> TRUE, select |-> FALSE]>>,
     faces |-> <<[select |-> FALSE]>>]

EditMeshSmall ==
    [lookup_valid |-> TRUE,
     verts |-> <<[co |-> <<7, 8, 9>>, select |-> FALSE]>>,
     edges |-> <<>>,
     faces |-> <<>>]

SceneObjects ==
    [n \in {"A", "B", "C", "Rig"} |->
        IF n = "Rig" THEN ArmatureObject
        ELSE IF n = "B" THEN MeshObject("QUATERNION")
        ELSE MeshObject("XYZ")]

ScenePoseBones ==
    [a \in {"Rig"} |->
        [b \in {"b1", "b2"} |-> IF b = "b1" THEN PoseBone("QUATERNION")
                                ELSE PoseBone("XYZ")]]

SceneMeshes ==
    [n \in {"A", "B", "C"} |-> IF n = "A" THEN EditMeshA ELSE EditMeshSmall]

\* register(): the defaults of the scene properties.
SceneDefaults ==
    [active_only |-> [c \in Channels |-> FALSE],
     active_only_bone |-> [c \in Channels |-> FALSE],
     show_spreadsheet_in_edit_mode |-> FALSE,
     spreadsheet_show_world_coords |-> FALSE]

\* The mesh_select_mode tuples the host offers.
SelectModes ==
    {<<TRUE, FALSE, FALSE>>, <<FALSE, TRUE, FALSE>>, <<FALSE, FALSE, TRUE>>,
     <<TRUE, TRUE, FALSE>>}

NoHistory ==
    [op |-> "none", args |-> <<>>, twice |-> FALSE, pre |-> <<>>,
     ret |-> "", reports |-> <<>>]

\* The addon's own state right after register(): empty lists, empty snapshot.
InitAddon ==
    /\ scn = SceneDefaults
    /\ spreadsheet_items = <<>>
    /\ bone_items = <<>>
    /\ vertex_items = <<>>
    /\ last_selected_names = {}
    /\ last_transforms = [n \in {} |-> <<>>]
    /\ dirty = FALSE
    /\ last = NoHistory

\* The scene in object mode with any selection among the meshes named.
InitObjectMode(names) ==
    /\ mode = "OBJECT"
    /\ active = None
    /\ \E S \in SUBSET names :
          objects = [n \in DOMAIN SceneObjects |->
                        [SceneObjects[n] EXCEPT !.selected = (n \in S)]]
    /\ pose_bones = ScenePoseBones
    /\ bm = SceneMeshes
    /\ mesh_select_mode = <<TRUE, FALSE, FALSE>>

\* The scene in pose mode on the armature with any selection of its bones.
InitPoseMode ==
    /\ mode = "POSE"
    /\ active = "Rig"
    /\ objects = [SceneObjects EXCEPT !["Rig"].selected = TRUE, !["Rig"].mode = "POSE"]
    /\ \E S \in SUBSET {"b1", "b2"} :
          pose_bones = [ScenePoseBones EXCEPT
                           !["Rig"] = [b \in DOMAIN @ |-> [@[b] EXCEPT !.selected = (b \in S)]]]
    /\ bm = SceneMeshes
    /\ mesh_select_mode = <<TRUE, FALSE, FALSE>>

\* The scene in mesh-edit mode on A with any selection of its vertices and edge.
InitEditMode ==
    /\ mode = "EDIT_MESH"
    /\ active = "A"
    /\ objects = [SceneObjects EXCEPT !["A"].selected = TRUE, !["A"].mode = "EDIT"]
    /\ pose_bones = ScenePoseBones
    /\ \E S \in SUBSET {1, 2}, e \in BOOLEAN :
          bm = [SceneMeshes EXCEPT
                   !["A"].verts = [k \in 1..Len(@) |-> [@[k] EXCEPT !.select = (k \in S)]],
                   !["A"].edges = [k \in 1..Len(@) |-> [@[k] EXCEPT !.select = e]]]
    /\ mesh_select_mode \in {<<TRUE, FALSE, FALSE>>, <<FALSE, TRUE, FALSE>>}

Init ==
    /\ InitAddon
    /\ fuel = MaxSteps
    /\ \/ InitObjectMode({"A", "B"})
       \/ InitPoseMode
       \/ InitEditMode

InitObject ==
    /\ InitAddon
    /\ fuel = MaxObjectSteps
    /\ InitObjectMode({"A", "B", "C"})

InitPose ==
    /\ InitAddon
    /\ fuel = MaxPoseSteps
    /\ InitPoseMode

InitWrite ==
    /\ InitAddon
    /\ fuel = MaxWriteSteps
    /\ \/ InitObjectMode({"A"})
       \/ InitPoseMode
       \/ InitEditMode

InitEdit ==
    /\ InitAddon
    /\ fuel = MaxEditSteps
    /\ InitObjectMode({"A", "B"})

InitModes ==
    /\ InitAddon
    /\ fuel = MaxModeSteps
    /\ \/ InitObjectMode({"A", "B"})
       \/ InitPoseMode

---------------------------------------------------------------------------
(* The host: scene changes, each of which raises an update notification *)

EnvStep ==
    /\ fuel > 0
    /\ fuel' = fuel - 1
    /\ last' = [NoHistory EXCEPT !.op = "env"]

HostStep(w) ==
    /\ ~dirty
    /\ EnvStep
    /\ Commit(w)
    /\ dirty' = TRUE

\* Click-select / deselect an object (object mode).
HostToggleSelect(o) ==
    /\ mode = "OBJECT"
    /\ o \in DOMAIN objects
    /\ HostStep([World EXCEPT !.objects[o].selected = ~@])

\* Make another object (or none) the active one.
HostSetActive(o) ==
    /\ mode = "OBJECT"
    /\ o \in DOMAIN objects \cup {None}
    /\ o # active
    /\ HostStep([World EXCEPT !.active = o])

moved(e, c) ==
    IF c = "loc" THEN [e EXCEPT !.location = IF @ = OtherLoc THEN ZeroVec ELSE OtherLoc]
    ELSE IF c = "rot"
         THEN IF e.rotation_mode = "QUATERNION"
              THEN [e EXCEPT !.rotation_quaternion =
                        IF @ = OtherQuat THEN IdentityQuat ELSE OtherQuat]
              ELSE [e EXCEPT !.rotation_euler =
                        IF @ = OtherEuler THEN ZeroVec ELSE OtherEuler]
    ELSE [e EXCEPT !.scale = IF @ = OtherScale THEN OneVec ELSE OtherScale]

\* Move, rotate or scale an object in the viewport.
HostTransformObject(o, c) ==
    /\ mode = "OBJECT"
    /\ o \in DOMAIN objects
    /\ HostStep([World EXCEPT !.objects[o] = moved(@, c)])

Without(f, k) == [n \in DOMAIN f \ {k} |-> f[n]]

\* Remove an object's data-block: every pointer property that held it reads None.
HostDeleteObject(o) ==
    /\ mode = "OBJECT"
    /\ o \in DOMAIN objects
    /\ HostStep([World EXCEPT
           !.objects = Without(@, o),
           !.pose_bones = Without(@, o),
           !.bm = Without(@, o),
           !.active = IF @ = o THEN None ELSE @,
           !.spreadsheet_items =
               [i \in 1..Len(@) |-> IF @[i].obj = o THEN [@[i] EXCEPT !.obj = None]
                                    ELSE @[i]],
           !.bone_items =
               [i \in 1..Len(@) |-> IF @[i].armature_obj = o
                                    THEN [@[i] EXCEPT !.armature_obj = None]
                                    ELSE @[i]]])

\* The objects that enter the mode with the active object.
entering(w, m, n) ==
    IF m = "EDIT_MESH"
    THEN w.objects[n].type = "MESH" /\ (n = w.active \/ w.objects[n].selected)
    ELSE n = w.active

object_mode_of(m) ==
    IF m = "EDIT_MESH" THEN "EDIT" ELSE IF m = "POSE" THEN "POSE" ELSE "OTHER"

\* Switch the interaction mode; context.mode follows the active object's mode.
HostSetMode(m) ==
    /\ m \in {"OBJECT", "EDIT_MESH", "POSE", "OTHER"}
    /\ m # mode
    /\ m # "OBJECT" => active # None
    /\ m = "EDIT_MESH" => objects[active].type = "MESH"
    /\ m = "POSE" => objects[active].type = "ARMATURE"
    /\ HostStep([World EXCEPT
           !.mode = m,
           !.objects = [n \in DOMAIN @ |->
               [@[n] EXCEPT !.mode = IF m # "OBJECT" /\ entering(World, m, n)
                                     THEN object_mode_of(m) ELSE "OBJECT"]]])

\* Click-select / deselect a pose bone.
HostToggleBoneSelect(b) ==
    /\ mode = "POSE"
    /\ active \in DOMAIN pose_bones
    /\ b \in DOMAIN pose_bones[active]
    /\ HostStep([World EXCEPT !.pose_bones[active][b].selected = ~@])

\* Pose a bone.
HostTransformBone(b, c) ==
    /\ mode = "POSE"
    /\ active \in DOMAIN pose_bones
    /\ b \in DOMAIN pose_bones[active]
    /\ HostStep([World EXCEPT !.pose_bones[active][b] = moved(@, c)])

\* Select / deselect a vertex, an edge or a face of a mesh in edit mode.
HostToggleElementSelect(o, kind, k) ==
    /\ mode = "EDIT_MESH"
    /\ o \in DOMAIN bm
    /\ objects[o].mode = "EDIT"
    /\ k \in 1..Len(bm[o][kind])
    /\ HostStep([World EXCEPT !.bm[o][kind][k].select = ~@])

\* Move a vertex / flip an edge's smooth flag in the mesh editor.
HostEditVertex(o, k) ==
    /\ mode = "EDIT_MESH"
    /\ o \in DOMAIN bm
    /\ objects[o].mode = "EDIT"
    /\ k \in 1..Len(bm[o].verts)
    /\ HostStep([World EXCEPT !.bm[o].verts[k].co =
                     IF @ = <<0, 0, 0>> THEN <<1, 2, 3>> ELSE <<0, 0, 0>>])

HostEditEdge(o, k) ==
    /\ mode = "EDIT_MESH"
    /\ o \in DOMAIN bm
    /\ objects[o].mode = "EDIT"
    /\ k \in 1..Len(bm[o].edges)
    /\ HostStep([World EXCEPT !.bm[o].edges[k].smooth = ~@])

\* The element lookup table of an edit mesh goes stale / is rebuilt.
HostTouchLookupTable(o) ==
    /\ mode = "EDIT_MESH"
    /\ o \in DOMAIN bm
    /\ objects[o].mode = "EDIT"
    /\ HostStep([World EXCEPT !.bm[o].lookup_valid = ~@])

\* A bone leaves the armature (removed in armature edit mode by a script that is back
\* in pose mode before the next notification).
HostRemoveBone(b) ==
    /\ mode = "POSE"
    /\ active \in DOMAIN pose_bones
    /\ b \in DOMAIN pose_bones[active]
    /\ HostStep([World EXCEPT !.pose_bones[active] = Without(@, b)])

\* The last vertex of an edit mesh is deleted, and with it the edges and faces on it;
\* the lookup table is left stale or is rebuilt by whoever deleted it.
HostRemoveVertex(o, valid) ==
    /\ mode = "EDIT_MESH"
    /\ o \in DOMAIN bm
    /\ objects[o].mode = "EDIT"
    /\ bm[o].verts # <<>>
    /\ HostStep([World EXCEPT !.bm[o].verts = SubSeq(@, 1, Len(@) - 1),
                              !.bm[o].edges = <<>>,
                              !.bm[o].faces = <<>>,
                              !.bm[o].lookup_valid = valid])

HostSetSelectMode(sm) ==
    /\ mode = "EDIT_MESH"
    /\ sm \in SelectModes
    /\ sm # mesh_select_mode
    /\ HostStep([World EXCEPT !.mesh_select_mode = sm])

---------------------------------------------------------------------------
(* The user, through SPREADSHEET_PT_MainPanel.draw: plain property toggles *)

UserStep(w) ==
    /\ ~dirty
    /\ EnvStep
    /\ Commit(w)
    /\ dirty' = FALSE

\* The panel branch that draws the object rows and their controls.
object_panel_drawn ==
    mode # "POSE" /\ mode # "EDIT_MESH" /\ spreadsheet_items # <<>>

\* The panel branch that draws the bone rows and their controls.
bone_panel_drawn == mode = "POSE" /\ bone_items # <<>>

toggled_chk(item, c) ==
    IF c = "loc" THEN [item EXCEPT !.chk_loc = ~@]
    ELSE IF c = "rot" THEN [item EXCEPT !.chk_rot = ~@]
    ELSE [item EXCEPT !.chk_scale = ~@]

toggled_bone_chk(item, c) ==
    IF c = "loc" THEN [item EXCEPT !.bone_chk_loc = ~@]
    ELSE IF c = "rot" THEN [item EXCEPT !.bone_chk_rot = ~@]
    ELSE [item EXCEPT !.bone_chk_scale = ~@]

\* row.prop(item, "chk_loc" / "chk_rot" / "chk_scale")
ToggleChk(i, c) ==
    /\ object_panel_drawn
    /\ i \in 1..Len(spreadsheet_items)
    /\ UserStep([World EXCEPT !.spreadsheet_items[i] = toggled_chk(@, c)])

\* active_row.prop(scn, "active_only_loc" / "_rot" / "_scale")
ToggleActiveOnly(c) ==
    /\ object_panel_drawn
    /\ UserStep([World EXCEPT !.scn.active_only[c] = ~@])

\* row.prop(item, "bone_chk_loc" / "bone_chk_rot" / "bone_chk_scale")
ToggleBoneChk(i, c) ==
    /\ bone_panel_drawn
    /\ i \in 1..Len(bone_items)
    /\ UserStep([World EXCEPT !.bone_items[i] = toggled_bone_chk(@, c)])

\* active_row.prop(scn, "active_only_bone_loc" / "_rot" / "_scale")
ToggleActiveOnlyBone(c) ==
    /\ bone_panel_drawn
    /\ UserStep([World EXCEPT !.scn.active_only_bone[c] = ~@])

\* row.prop(scn, "show_spreadsheet_in_edit_mode"): a scene change, so a notification.
ToggleShowInEditMode ==
    /\ mode = "EDIT_MESH"
    /\ HostStep([World EXCEPT !.scn.show_spreadsheet_in_edit_mode = ~@])

\* row.prop(scn, "spreadsheet_show_world_coords")
ToggleShowWorldCoords ==
    /\ mode = "EDIT_MESH"
    /\ HostStep([World EXCEPT !.scn.spreadsheet_show_world_coords = ~@])

---------------------------------------------------------------------------
(* The addon's operations *)

History(op, args, result) ==
    [op |-> op, args |-> args,
     twice |-> (last.op = op /\ last.args = args),
     pre |-> World, ret |-> result.ret, reports |-> result.reports]

Returned(w) == [w |-> w, ret |-> "", reports |-> <<>>]

\* depsgraph_update_post: the host delivers an update notification.
Handler ==
    /\ Commit(selection_change_handler(World))
    /\ dirty' = FALSE
    /\ last' = History("selection_change_handler", <<>>, Returned(World))
    /\ UNCHANGED fuel

\* The refreshers called on their own, in the mode in which the code calls them (the
\* object list in object mode, the bone list in pose mode on an armature, the
\* element list in mesh-edit mode with the edit-mode spreadsheet shown).  The program
\* itself never calls one outside the change detector and Clear, so such a call ends
\* the environment's part of the behaviour: only notifications and further calls follow.
RefreshObjectList ==
    /\ mode = "OBJECT"
    /\ Commit(refresh_object_list(World))
    /\ last' = History("refresh_object_list", <<>>, Returned(World))
    /\ fuel' = 0
    /\ UNCHANGED dirty

RefreshBoneList ==
    /\ mode = "POSE"
    /\ active_is_armature(World)
    /\ Commit(refresh_bone_list(World))
    /\ last' = History("refresh_bone_list", <<>>, Returned(World))
    /\ fuel' = 0
    /\ UNCHANGED dirty

RefreshMeshElementList ==
    /\ mode = "EDIT_MESH"
    /\ scn.show_spreadsheet_in_edit_mode
    /\ Commit(refresh_mesh_element_list(World))
    /\ last' = History("refresh_mesh_element_list", <<>>, Returned(World))
    /\ fuel' = 0
    /\ UNCHANGED dirty

\* The Apply buttons; bpy.ops.object.select_all polls for object mode.
ApplyTransAct(transform, raises, notify_before, notify_after) ==
    /\ ~dirty
    /\ object_panel_drawn
    /\ mode = "OBJECT"
    /\ raises => ~notify_after
    /\ fuel > 0
    /\ fuel' = fuel - 1
    /\ LET r == ApplyTrans(World, transform, raises, notify_before, notify_after) IN
       /\ Commit(r.w)
       /\ last' = History("apply_trans",
                          <<transform, raises, notify_before, notify_after>>, r)
    /\ dirty' = TRUE

\* The Clear buttons, or spreadsheet.clear_bone_trans invoked from anywhere.
ClearBoneTransAct(transform) ==
    /\ ~dirty
    /\ fuel > 0
    /\ fuel' = fuel - 1
    /\ LET r == ClearBoneTrans(World, transform) IN
       /\ Commit(r.w)
       /\ last' = History("clear_bone_trans", <<transform>>, r)
       /\ dirty' = (r.ret = "FINISHED")

\* A row property assigned from the panel (row.prop) or by a script, at any moment;
\* a write that reached the host raises a notification.
WriteStep(op, args, w) ==
    /\ fuel > 0
    /\ fuel' = fuel - 1
    /\ Commit(w)
    /\ last' = History(op, args, Returned(World))
    /\ dirty' = (dirty \/ w.objects # objects \/ w.pose_bones # pose_bones \/ w.bm # bm)

WriteObjectRow(i, field) ==
    /\ i \in 1..Len(spreadsheet_items)
    /\ WriteStep("write_object_row", <<i, field, typed_value(World, i, field)>>,
                 write_object_row(World, i, field, typed_value(World, i, field)))

WriteBoneRow(i, field) ==
    /\ i \in 1..Len(bone_items)
    /\ WriteStep("write_bone_row", <<i, field, typed_value(World, i, field)>>,
                 write_bone_row(World, i, field, typed_value(World, i, field)))

WriteElementRow(i, field) ==
    /\ i \in 1..Len(vertex_items)
    /\ WriteStep("write_element_row", <<i, field, typed_value(World, i, field)>>,
                 write_element_row(World, i, field, typed_value(World, i, field)))

\* The property of an object row that the panel draws for a channel: the quaternion
\* when the row's object is in quaternion mode, the euler rotation otherwise.
panel_field(w, i, c) ==
    IF c = "loc" THEN "location"
    ELSE IF c = "scale" THEN "scale"
    ELSE IF w.objects[w.spreadsheet_items[i].obj].rotation_mode = "QUATERNION"
         THEN "rotation_quaternion"
    ELSE "rotation"

\* The user types a value into a field of an object row in the panel; the rotation
\* field is drawn only for a row whose object exists.
EditObjectRow(i, c) ==
    /\ ~dirty
    /\ object_panel_drawn
    /\ i \in 1..Len(spreadsheet_items)
    /\ c = "rot" => spreadsheet_items[i].obj # None
    /\ LET field == panel_field(World, i, c) IN
       WriteStep("edit_object_row", <<i, field, typed_value(World, i, field)>>,
                 write_object_row(World, i, field, typed_value(World, i, field)))

\* One of the four set-bone commands run by name, from a row callback's caller or
\* from anywhere else.
SetBoneAct(idname, armature_name, bone_name) ==
    /\ fuel > 0
    /\ fuel' = fuel - 1
    /\ LET value == IF idname = "set_bone_rotation_quaternion" THEN TypedQuat ELSE TypedVec
           r == set_bone(World, idname, armature_name, bone_name, value)
       IN /\ Commit(r.w)
          /\ last' = History(idname, <<armature_name, bone_name, value>>,
                             [w |-> r.w, ret |-> r.ret, reports |-> <<>>])
          /\ dirty' = (dirty \/ r.ret = "FINISHED")

Next ==
    \/ \E o \in {"A", "B", "Rig"} : HostToggleSelect(o)
    \/ \E o \in {"A", "Rig"} : HostSetActive(o)
    \/ \E o \in {"A", "B"}, c \in Channels : HostTransformObject(o, c)
    \/ \E o \in {"A", "Rig"} : HostDeleteObject(o)
    \/ \E m \in {"OBJECT", "EDIT_MESH", "POSE", "OTHER"} : HostSetMode(m)
    \/ \E b \in {"b1", "b2"} : HostToggleBoneSelect(b)
    \/ \E b \in {"b1", "b2"}, c \in Channels : HostTransformBone(b, c)
    \/ \E o \in {"A", "B"}, kind \in {"verts", "edges", "faces"}, k \in 1..2 :
          HostToggleElementSelect(o, kind, k)
    \/ \E o \in {"A", "B"}, k \in 1..2 : HostEditVertex(o, k)
    \/ \E o \in {"A", "B"}, k \in 1..2 : HostEditEdge(o, k)
    \/ \E o \in {"A", "B"} : HostTouchLookupTable(o)
    \/ \E sm \in SelectModes : HostSetSelectMode(sm)
    \/ \E i \in 1..3, c \in Channels : ToggleChk(i, c)
    \/ \E c \in Channels : ToggleActiveOnly(c)
    \/ \E i \in 1..2, c \in Channels : ToggleBoneChk(i, c)
    \/ \E c \in Channels : ToggleActiveOnlyBone(c)
    \/ ToggleShowInEditMode
    \/ ToggleShowWorldCoords
    \/ Handler
    \/ RefreshObjectList
    \/ RefreshBoneList
    \/ RefreshMeshElementList
    \/ \E c \in Channels, raises, nb, na \in BOOLEAN : ApplyTransAct(c, raises, nb, na)
    \/ \E c \in Channels : ClearBoneTransAct(c)

Spec == Init /\ [][Next]_vars

\* Object mode only: the object rows, their flags and the Apply buttons.
NextObject ==
    \/ \E o \in {"A", "B", "C"} : HostToggleSelect(o)
    \/ \E i \in 1..3, c \in Channels : ToggleChk(i, c)
    \/ \E c \in Channels : ToggleActiveOnly(c)
    \/ Handler
    \/ RefreshObjectList
    \/ \E c \in Channels, raises, nb, na \in BOOLEAN : ApplyTransAct(c, raises, nb, na)

SpecObject == InitObject /\ [][NextObject]_vars

\* Pose mode only: the bone rows, their flags and the Clear buttons.
NextPose ==
    \/ \E b \in {"b1", "b2"} : HostToggleBoneSelect(b)
    \/ \E b \in {"b1", "b2"}, c \in Channels : HostTransformBone(b, c)
    \/ \E i \in 1..2, c \in Channels : ToggleBoneChk(i, c)
    \/ \E c \in Channels : ToggleActiveOnlyBone(c)
    \/ Handler
    \/ RefreshBoneList
    \/ \E c \in Channels : ClearBoneTransAct(c)

SpecPose == InitPose /\ [][NextPose]_vars

\* Writes to rows whose backing entity may be gone, the display toggles of the
\* mesh-edit panel, and the set-bone commands.
NextWrite ==
    \/ HostDeleteObject("A")
    \/ \E b \in {"b1", "b2"} : HostRemoveBone(b)
    \/ \E valid \in BOOLEAN : HostRemoveVertex("A", valid)
    \/ ToggleShowInEditMode
    \/ ToggleShowWorldCoords
    \/ \E i \in 1..2, field \in {"location", "rotation", "rotation_quaternion", "scale"} :
          WriteObjectRow(i, field)
    \/ \E i \in 1..2, field \in {"bone_location", "bone_rotation",
                                  "bone_rotation_quaternion", "bone_scale"} :
          WriteBoneRow(i, field)
    \/ \E i \in 1..2, field \in {"x", "y", "z", "is_sharp"} : WriteElementRow(i, field)
    \/ \E idname \in SetBoneCommands, a \in {"Rig", "A", "Nobody"}, b \in {"b1", "nobone"} :
          SetBoneAct(idname, a, b)
    \/ Handler
    \/ RefreshObjectList
    \/ RefreshBoneList
    \/ RefreshMeshElementList

SpecWrite == InitWrite /\ [][NextWrite]_vars

\* Object mode with the fields of the object rows edited in the panel.
NextEdit ==
    \/ \E o \in {"A", "B"} : HostToggleSelect(o)
    \/ \E i \in 1..2, c \in Channels : ToggleChk(i, c)
    \/ \E c \in Channels : ToggleActiveOnly(c)
    \/ \E i \in 1..2, c \in Channels : EditObjectRow(i, c)
    \/ Handler
    \/ \E c \in Channels, raises, nb, na \in BOOLEAN : ApplyTransAct(c, raises, nb, na)

SpecEdit == InitEdit /\ [][NextEdit]_vars

\* Mode changes, selection changes and transform changes only, each followed by the
\* notification it raises.
NextModes ==
    \/ \E o \in {"A", "B", "Rig"} : HostToggleSelect(o)
    \/ \E o \in {"A", "Rig"} : HostSetActive(o)
    \/ \E c \in Channels : HostTransformObject("A", c)
    \/ \E m \in {"OBJECT", "EDIT_MESH", "POSE", "OTHER"} : HostSetMode(m)
    \/ \E b \in {"b1", "b2"} : HostToggleBoneSelect(b)
    \/ \E c \in Channels : HostTransformBone("b1", c)
    \/ Handler

SpecModes == InitModes /\ [][NextModes]_vars

---------------------------------------------------------------------------
(* Properties of the refreshers and of the change detector *)

ObjectFlags(item) == <<item.chk_loc, item.chk_rot, item.chk_scale>>

BoneFlags(item) == <<item.bone_chk_loc, item.bone_chk_rot, item.bone_chk_scale>>

AllOn == <<TRUE, TRUE, TRUE>>

RowObjs(items) == [i \in 1..Len(items) |-> items[i].obj]

RowBones(items) == [i \in 1..Len(items) |-> items[i].bone_name]

LiveRows(items) == SelectSeq(items, LAMBDA item : item.obj # None)

SelectedNames(objs) == {n \in DOMAIN objs : objs[n].selected}

NameRank(n) == CHOOSE k \in 1..Len(NameOrder) : NameOrder[k] = n

\* Strictly ascending by name: in name order and no name twice.
Ascending(names) ==
    \A i, j \in 1..Len(names) : i < j => NameRank(names[i]) < NameRank(names[j])

\* The rows of before whose key is the one of row.
SameObjectBefore(row, before) ==
    {j \in 1..Len(before) : before[j].obj # None /\ before[j].obj = row.obj}

SameBoneBefore(row, before) ==
    {j \in 1..Len(before) : before[j].armature_obj # None
                            /\ before[j].bone_name = row.bone_name}

ObjectFlagsCarried(before, after) ==
    \A i \in 1..Len(after) :
        IF SameObjectBefore(after[i], before) # {}
        THEN \A j \in SameObjectBefore(after[i], before) :
                 ObjectFlags(after[i]) = ObjectFlags(before[j])
        ELSE ObjectFlags(after[i]) = AllOn

BoneFlagsCarried(before, after) ==
    \A i \in 1..Len(after) :
        IF SameBoneBefore(after[i], before) # {}
        THEN \A j \in SameBoneBefore(after[i], before) :
                 BoneFlags(after[i]) = BoneFlags(before[j])
        ELSE BoneFlags(after[i]) = AllOn

\* C1: after a refresh of the object list (resp. of the bone list), a row whose key
\* (object name, resp. bone name) was the key of a row just before the refresh has
\* exactly that row's three flags, and every other row of the refreshed list has all
\* three flags true.
C1_FlagsFollowKey ==
    /\ last.op = "refresh_object_list" =>
          ObjectFlagsCarried(last.pre.spreadsheet_items, spreadsheet_items)
    /\ last.op = "refresh_bone_list" =>
          BoneFlagsCarried(last.pre.bone_items, bone_items)

\* A refresh of the object list that kept a row with a flag switched off and added a
\* row for a newly selected object.
C1_Witness ==
    /\ last.op = "refresh_object_list"
    /\ \E i \in 1..Len(spreadsheet_items) :
          /\ SameObjectBefore(spreadsheet_items[i], last.pre.spreadsheet_items) # {}
          /\ ObjectFlags(spreadsheet_items[i]) # AllOn
    /\ \E i \in 1..Len(spreadsheet_items) :
          SameObjectBefore(spreadsheet_items[i], last.pre.spreadsheet_items) = {}

\* C2: after a refresh of the object list the rows are exactly the selected objects,
\* one row each, ascending by name; the rows of objects that had a row before the
\* refresh (those that remain after a deselection) keep their flags.
C2_RowsAreSelectionByName ==
    last.op = "refresh_object_list" =>
        /\ Range(RowObjs(spreadsheet_items)) = SelectedNames(objects)
        /\ Ascending(RowObjs(spreadsheet_items))
        /\ \A i \in 1..Len(spreadsheet_items) :
              \A j \in SameObjectBefore(spreadsheet_items[i], last.pre.spreadsheet_items) :
                  ObjectFlags(spreadsheet_items[i]) =
                      ObjectFlags(last.pre.spreadsheet_items[j])

\* Rows A, B, C, then B deselected and the list refreshed: rows A, C, one of them
\* with a flag the user had switched off.
C2_Witness ==
    /\ last.op = "refresh_object_list"
    /\ RowObjs(last.pre.spreadsheet_items) = <<"A", "B", "C">>
    /\ RowObjs(spreadsheet_items) = <<"A", "C">>
    /\ \E i \in 1..Len(spreadsheet_items) : ObjectFlags(spreadsheet_items[i]) # AllOn

\* C3: a list refresh (object, bone or mesh-element) called a second time, with no
\* host change since the first call, leaves the row list exactly as the first call
\* left it: same rows, order, cached values and flags.
C3_RefreshIdempotent ==
    last.twice =>
        /\ last.op = "refresh_object_list" =>
              spreadsheet_items = last.pre.spreadsheet_items
        /\ last.op = "refresh_bone_list" => bone_items = last.pre.bone_items
        /\ last.op = "refresh_mesh_element_list" => vertex_items = last.pre.vertex_items

\* A second refresh in a row of a non-empty object list that has a flag switched off.
C3_Witness ==
    /\ last.twice
    /\ last.op = "refresh_object_list"
    /\ \E i \in 1..Len(spreadsheet_items) : ObjectFlags(spreadsheet_items[i]) # AllOn

\* The (location, rotation, scale) triple the change detector takes of an object or bone.
TripleOf(e) ==
    <<e.location,
      IF e.rotation_mode = "QUATERNION" THEN e.rotation_quaternion ELSE e.rotation_euler,
      e.scale>>

\* The selection or a selected entity's triple differs from the snapshot held in w.
DiffersFromSnapshot(w, names, entities) ==
    \/ names # w.last_selected_names
    \/ \E n \in names : TripleOf(entities[n]) # w.last_transforms[n]

SnapshotIs(names, entities) ==
    /\ last_selected_names = names
    /\ last_transforms = [n \in names |-> TripleOf(entities[n])]

ObjectRowMirrors(item) ==
    /\ item.location = objects[item.obj].location
    /\ IF objects[item.obj].rotation_mode = "QUATERNION"
       THEN item.rotation_quaternion = objects[item.obj].rotation_quaternion
       ELSE item.rotation = objects[item.obj].rotation_euler
    /\ item.scale = objects[item.obj].scale

BoneRowMirrors(item) ==
    LET b == pose_bones[item.armature_obj][item.bone_name] IN
    /\ item.bone_location = b.location
    /\ IF b.rotation_mode = "QUATERNION"
       THEN item.bone_rotation_quaternion = b.rotation_quaternion
       ELSE item.bone_rotation = b.rotation_euler
    /\ item.bone_scale = b.scale

ObjectRowsRebuilt(names) ==
    /\ Range(RowObjs(spreadsheet_items)) = names
    /\ Ascending(RowObjs(spreadsheet_items))
    /\ \A i \in 1..Len(spreadsheet_items) : ObjectRowMirrors(spreadsheet_items[i])

BoneRowsRebuilt(names) ==
    /\ Range(RowBones(bone_items)) = names
    /\ Ascending(RowBones(bone_items))
    /\ \A i \in 1..Len(bone_items) :
          bone_items[i].armature_obj = active /\ BoneRowMirrors(bone_items[i])

SelectedBoneNames(w) ==
    {b \in DOMAIN w.pose_bones[w.active] : w.pose_bones[w.active][b].selected}

PoseOnArmature(w) ==
    /\ w.mode = "POSE"
    /\ w.active # None
    /\ w.objects[w.active].type = "ARMATURE"

\* C4: on a notification in object mode (resp. pose mode with an armature active):
\* if the set of selected names, or the (location, rotation, scale) triple of a
\* selected object (resp. bone), differs from the snapshot, then afterwards the
\* snapshot is the current selection and triples and the object (resp. bone) rows
\* are rebuilt from the host; if neither differs, the rows of that mode, flags
\* included, and the snapshot are as before.
C4_ChangeDetector ==
    last.op = "selection_change_handler" =>
        /\ last.pre.mode = "OBJECT" =>
              IF DiffersFromSnapshot(last.pre, SelectedNames(last.pre.objects),
                                     last.pre.objects)
              THEN /\ SnapshotIs(SelectedNames(objects), objects)
                   /\ ObjectRowsRebuilt(SelectedNames(objects))
              ELSE /\ spreadsheet_items = last.pre.spreadsheet_items
                   /\ last_selected_names = last.pre.last_selected_names
                   /\ last_transforms = last.pre.last_transforms
        /\ PoseOnArmature(last.pre) =>
              IF DiffersFromSnapshot(last.pre, SelectedBoneNames(last.pre),
                                     last.pre.pose_bones[last.pre.active])
              THEN /\ SnapshotIs(SelectedBoneNames(World), pose_bones[active])
                   /\ BoneRowsRebuilt(SelectedBoneNames(World))
              ELSE /\ bone_items = last.pre.bone_items
                   /\ last_selected_names = last.pre.last_selected_names
                   /\ last_transforms = last.pre.last_transforms

\* A notification in object mode after an object was moved: the selection is the
\* one of the snapshot, a triple is not, and the rebuilt rows carry a switched-off flag.
C4_Witness ==
    /\ last.op = "selection_change_handler"
    /\ last.pre.mode = "OBJECT"
    /\ SelectedNames(last.pre.objects) = last.pre.last_selected_names
    /\ DiffersFromSnapshot(last.pre, SelectedNames(last.pre.objects), last.pre.objects)
    /\ \E i \in 1..Len(spreadsheet_items) : ObjectFlags(spreadsheet_items[i]) # AllOn

\* C5: after every run of the change detector each mirror list that does not belong
\* to the current mode is empty: in object mode the bone and mesh-element lists, in
\* mesh-edit mode the object and bone lists, in pose mode the object and
\* mesh-element lists, and in any other mode all three.
C5_OtherListsEmpty ==
    last.op = "selection_change_handler" =>
        /\ mode = "OBJECT" => bone_items = <<>> /\ vertex_items = <<>>
        /\ mode = "EDIT_MESH" => spreadsheet_items = <<>> /\ bone_items = <<>>
        /\ mode = "POSE" => spreadsheet_items = <<>> /\ vertex_items = <<>>
        /\ mode \notin {"OBJECT", "EDIT_MESH", "POSE"} =>
              spreadsheet_items = <<>> /\ bone_items = <<>> /\ vertex_items = <<>>

---------------------------------------------------------------------------
(* Properties of the batch Apply and Clear operators *)

ObjectChannelFlag(item, c) ==
    IF c = "loc" THEN item.chk_loc ELSE IF c = "rot" THEN item.chk_rot ELSE item.chk_scale

BoneChannelFlag(item, c) ==
    IF c = "loc" THEN item.bone_chk_loc
    ELSE IF c = "rot" THEN item.bone_chk_rot
    ELSE item.bone_chk_scale

\* The value of channel c of an object or bone, in its rotation mode.
ChannelOf(e, c) ==
    IF c = "loc" THEN e.location
    ELSE IF c = "rot"
         THEN IF e.rotation_mode = "QUATERNION" THEN e.rotation_quaternion
              ELSE e.rotation_euler
    ELSE e.scale

IdentityOf(e, c) ==
    IF c = "loc" THEN ZeroVec
    ELSE IF c = "rot"
         THEN IF e.rotation_mode = "QUATERNION" THEN IdentityQuat ELSE ZeroVec
    ELSE OneVec

\* Everything of e but its selection and mode flags, with channel c left out.
OffChannel(e, c) ==
    <<IF c = "loc" THEN <<>> ELSE e.location,
      IF c = "rot" THEN <<>> ELSE <<e.rotation_euler, e.rotation_quaternion>>,
      IF c = "scale" THEN <<>> ELSE e.scale,
      e.rotation_mode>>

Transforms(e) == <<e.location, e.rotation_euler, e.rotation_quaternion, e.scale>>

\* The last operation was a press of Apply; its channel, and whether the host call raised.
Applied == last.op = "apply_trans"
ApplyChannel == last.args[1]
ApplyRaised == last.args[2]
ApplyNotifiedBefore == last.args[3]

\* The rows the claims call candidates, read off the rows before the operation.
Candidates ==
    {item.obj : item \in
        {r \in Range(last.pre.spreadsheet_items) :
            /\ r.obj # None
            /\ (last.pre.scn.active_only[ApplyChannel]
                   => ObjectChannelFlag(r, ApplyChannel))}}

\* The host call was made and raised.
ApplyFailed == Applied /\ ApplyRaised /\ Candidates # {}

\* C6: a batch apply for channel C takes as candidates the rows with a live object
\* whose C-flag is on when active-only for C is on, and all rows with a live object
\* when it is off; afterwards the host selection is exactly the candidates; when the
\* host call is made and does not raise, channel C of every candidate is the
\* identity value and no other channel and no other object is changed; with no
\* candidate (active-only on and every C-flag off) nothing is applied.
C6_ApplyBakesCandidates ==
    Applied =>
        /\ SelectedNames(objects) = Candidates
        /\ DOMAIN objects = DOMAIN last.pre.objects
        /\ \A n \in DOMAIN objects \ Candidates :
              Transforms(objects[n]) = Transforms(last.pre.objects[n])
        /\ \A n \in Candidates :
              OffChannel(objects[n], ApplyChannel) =
                  OffChannel(last.pre.objects[n], ApplyChannel)
        /\ ~ApplyRaised =>
              \A n \in Candidates :
                  ChannelOf(objects[n], ApplyChannel) = IdentityOf(objects[n], ApplyChannel)
        /\ Candidates = {} => last.reports = <<"WARNING">>

\* A successful apply with active-only on that took some rows and left one out, on
\* a candidate whose channel was not the identity before.
C6_Witness ==
    /\ Applied
    /\ ~ApplyRaised
    /\ last.pre.scn.active_only[ApplyChannel]
    /\ Candidates # {}
    /\ Candidates # Range(RowObjs(last.pre.spreadsheet_items))
    /\ \E n \in Candidates :
          ChannelOf(last.pre.objects[n], ApplyChannel) #
              IdentityOf(last.pre.objects[n], ApplyChannel)

\* The row list refers to the objects the live rows referred to before, in that order.
RowObjsKept == RowObjs(spreadsheet_items) = RowObjs(LiveRows(last.pre.spreadsheet_items))

\* Every row has the flags that the row of its object had before the operation.
RowFlagsKept ==
    \A i \in 1..Len(spreadsheet_items) :
        /\ SameObjectBefore(spreadsheet_items[i], last.pre.spreadsheet_items) # {}
        /\ \A j \in SameObjectBefore(spreadsheet_items[i], last.pre.spreadsheet_items) :
              ObjectFlags(spreadsheet_items[i]) = ObjectFlags(last.pre.spreadsheet_items[j])

C8_ActiveOnlyRestoresList ==
    (Applied /\ last.pre.scn.active_only[ApplyChannel]) => RowObjsKept

\* An apply with active-only on, with a row left out of the candidates, during
\* which the change detector ran on the narrowed selection.
C8_Witness ==
    /\ Applied
    /\ last.pre.scn.active_only[ApplyChannel]
    /\ ApplyNotifiedBefore
    /\ Candidates # {}
    /\ Candidates # Range(RowObjs(last.pre.spreadsheet_items))
    /\ Len(spreadsheet_items) > Cardinality(Candidates)

\* C9: after a batch apply, whatever the channel, the active-only setting and the
\* outcome of the host call, every row has the three flags that the row of its
\* object had before the operation.
C9_ApplyKeepsFlags == Applied => RowFlagsKept

\* An apply with active-only on, during which the change detector ran, that ends
\* with a row whose flag is off.
C9_Witness ==
    /\ Applied
    /\ last.pre.scn.active_only[ApplyChannel]
    /\ ApplyNotifiedBefore
    /\ Candidates # {}
    /\ \E i \in 1..Len(spreadsheet_items) : ObjectFlags(spreadsheet_items[i]) # AllOn

\* The last operation was a press of Clear; its channel.
Cleared == last.op = "clear_bone_trans"
ClearChannel == last.args[1]

\* The bone rows of the active armature before the operation, as bone names: all
\* of them, and those whose flag for the channel is on.
ArmatureRows ==
    IF PoseOnArmature(last.pre)
    THEN {r \in Range(last.pre.bone_items) :
             /\ r.armature_obj = last.pre.active
             /\ r.bone_name \in DOMAIN last.pre.pose_bones[last.pre.active]}
    ELSE {}

RowBoneNames == {r.bone_name : r \in ArmatureRows}

CheckedBoneNames ==
    {r.bone_name : r \in {x \in ArmatureRows : BoneChannelFlag(x, ClearChannel)}}

ClearActiveOnly == last.pre.scn.active_only_bone[ClearChannel]

\* Everything of a pose bone but the one field a clear of channel c writes.
BoneOffChannel(e, c) ==
    <<IF c = "loc" THEN <<>> ELSE e.location,
      IF c = "rot" /\ e.rotation_mode = "QUATERNION" THEN <<>> ELSE e.rotation_quaternion,
      IF c = "rot" /\ e.rotation_mode # "QUATERNION" THEN <<>> ELSE e.rotation_euler,
      IF c = "scale" THEN <<>> ELSE e.scale,
      e.rotation_mode, e.selected>>

\* Exactly the bones named are reset in the channel; nothing else of any bone changes.
ClearedExactly(names) ==
    /\ DOMAIN pose_bones = DOMAIN last.pre.pose_bones
    /\ \A a \in DOMAIN pose_bones : \A b \in DOMAIN pose_bones[a] :
          IF PoseOnArmature(last.pre) /\ a = last.pre.active /\ b \in names
          THEN /\ ChannelOf(pose_bones[a][b], ClearChannel) =
                      IdentityOf(pose_bones[a][b], ClearChannel)
               /\ BoneOffChannel(pose_bones[a][b], ClearChannel) =
                      BoneOffChannel(last.pre.pose_bones[a][b], ClearChannel)
          ELSE pose_bones[a][b] = last.pre.pose_bones[a][b]

\* C10 as amended: a batch clear for channel C resets channel C (location to
\* (0,0,0), scale to (1,1,1), rotation to quaternion (1,0,0,0) in quaternion mode
\* and to euler (0,0,0) otherwise) of the bone of every row of the active armature
\* whose C-flag is on when active-only for C is on, and of the bone of every row
\* of the active armature when it is off; no other bone and no other channel changes.
C10_ClearResetsTargets ==
    Cleared =>
        ClearedExactly(IF ClearActiveOnly THEN CheckedBoneNames ELSE RowBoneNames)

\* C10 as stated: a batch clear for channel C resets channel C of the bone of every
\* checked row (C-flag on) of the active armature and of no other bone.
C10_ClearResetsCheckedOnly == Cleared => ClearedExactly(CheckedBoneNames)

\* A clear of rotation with active-only off, over a row whose rotation flag is off
\* and whose bone is in quaternion mode and was not at the identity.
C10_Witness ==
    /\ Cleared
    /\ last.ret = "FINISHED"
    /\ ClearChannel = "rot"
    /\ ~ClearActiveOnly
    /\ \E r \in ArmatureRows :
          /\ ~BoneChannelFlag(r, ClearChannel)
          /\ last.pre.pose_bones[last.pre.active][r.bone_name].rotation_mode = "QUATERNION"
          /\ last.pre.pose_bones[last.pre.active][r.bone_name].rotation_quaternion
                 # IdentityQuat

\* C11: a batch clear invoked when the mode is not pose, or when there is no active
\* object or the active object is not an armature, is cancelled with a warning and
\* changes nothing: no pose-bone transform, no bone row, no flag (nor anything else
\* of the scene or of the addon's state).
C11_ClearOutsidePoseCancelled ==
    (Cleared /\ ~PoseOnArmature(last.pre)) =>
        /\ last.ret = "CANCELLED"
        /\ last.reports = <<"WARNING">>
        /\ pose_bones = last.pre.pose_bones
        /\ bone_items = last.pre.bone_items
        /\ World = last.pre

\* A clear pressed outside pose mode while the armature's bones are posed.
C11_Witness ==
    /\ Cleared
    /\ last.pre.mode # "POSE"
    /\ "Rig" \in DOMAIN pose_bones
    /\ \E b \in DOMAIN pose_bones["Rig"] :
          ChannelOf(pose_bones["Rig"][b], ClearChannel) #
              IdentityOf(pose_bones["Rig"][b], ClearChannel)

\* C12: a batch clear that succeeded has refreshed the bone list before it returns:
\* the rows are the selected bones of the active armature, every row's cached
\* location, rotation (in the bone's rotation mode) and scale are the pose bone's
\* current values, the cleared channel therefore showing its reset value, and every
\* row has the flags the row of its bone had before.
C12_ClearRefreshesRows ==
    (Cleared /\ last.ret = "FINISHED") =>
        /\ BoneRowsRebuilt(SelectedBoneNames(World))
        /\ BoneFlagsCarried(last.pre.bone_items, bone_items)
        /\ \A i \in 1..Len(bone_items) :
              SameBoneBefore(bone_items[i], last.pre.bone_items) # {}
        /\ \A i \in 1..Len(bone_items) :
              bone_items[i].bone_name \in
                  (IF ClearActiveOnly THEN CheckedBoneNames ELSE RowBoneNames) =>
                  ChannelOf(pose_bones[active][bone_items[i].bone_name], ClearChannel) =
                      IdentityOf(pose_bones[active][bone_items[i].bone_name], ClearChannel)

\* A successful clear of a channel that was not at its reset value, with a row whose
\* flag is off: the row's cached value before was the posed one.
C12_Witness ==
    /\ Cleared
    /\ last.ret = "FINISHED"
    /\ \E i \in 1..Len(bone_items) :
          /\ BoneFlags(bone_items[i]) # AllOn
          /\ ChannelOf(last.pre.pose_bones[active][bone_items[i].bone_name], ClearChannel)
                 # IdentityOf(pose_bones[active][bone_items[i].bone_name], ClearChannel)
          /\ ChannelOf(pose_bones[active][bone_items[i].bone_name], ClearChannel)
                 = IdentityOf(pose_bones[active][bone_items[i].bone_name], ClearChannel)

---------------------------------------------------------------------------
(* Properties of the writes to row properties *)

\* The last operation was an assignment to a property of an object, bone or
\* mesh-element row; the row, the property and the value assigned.
WroteObjectRow == last.op = "write_object_row"
WroteBoneRow == last.op = "write_bone_row"
WroteElementRow == last.op = "write_element_row"
WrittenRow == last.args[1]
WrittenField == last.args[2]
WrittenValue == last.args[3]

\* The scene the addon mirrors: objects, pose bones and edit meshes.
HostOf(w) == <<w.objects, w.pose_bones, w.bm>>

\* The world before the write with the value stored in the row and nothing else done.
Stored == [last.pre EXCEPT !.bone_items[WrittenRow][WrittenField] = WrittenValue]

\* The named object exists, is an armature in pose mode and has the named bone.
NamedBoneIn(w, armature_name, bone_name) ==
    /\ armature_name \in DOMAIN w.objects
    /\ w.objects[armature_name].type = "ARMATURE"
    /\ w.objects[armature_name].mode = "POSE"
    /\ armature_name \in DOMAIN w.pose_bones
    /\ bone_name \in DOMAIN w.pose_bones[armature_name]

\* The command an edit of a field of a bone row is to go through, with the armature
\* name, the bone name and the components it is to carry; <<>> when the row names no
\* bone of a pose-mode armature.
BoneCallOf(w, item, field) ==
    IF item.armature_obj = None \/ item.bone_name = ""
       \/ ~NamedBoneIn(w, item.armature_obj, item.bone_name)
    THEN <<>>
    ELSE IF field = "bone_location"
         THEN <<"set_bone_location", item.armature_obj, item.bone_name, item.bone_location>>
    ELSE IF field = "bone_scale"
         THEN <<"set_bone_scale", item.armature_obj, item.bone_name, item.bone_scale>>
    ELSE IF w.pose_bones[item.armature_obj][item.bone_name].rotation_mode = "QUATERNION"
         THEN <<"set_bone_rotation_quaternion", item.armature_obj, item.bone_name,
                item.bone_rotation_quaternion>>
    ELSE <<"set_bone_rotation_euler", item.armature_obj, item.bone_name,
           item.bone_rotation>>

\* The one field of a pose bone a set-bone command writes.
CommandField(idname) ==
    IF idname = "set_bone_location" THEN "location"
    ELSE IF idname = "set_bone_rotation_euler" THEN "rotation_euler"
    ELSE IF idname = "set_bone_rotation_quaternion" THEN "rotation_quaternion"
    ELSE "scale"

\* The pose bones of w with one field of one bone set.
WithBoneField(w, armature_name, bone_name, field, value) ==
    [w.pose_bones EXCEPT ![armature_name][bone_name][field] = value]

\* C13: an edit of a bone row changes the pose bone only through a set-bone command,
\* an undo-registering operator called with the armature name, the bone name and the
\* components: the scene after the edit is the scene that command leaves, and an
\* edit for which no command is dispatched changes no pose bone.  A set-bone command
\* whose named object does not exist, is not an armature, is not in pose mode or has
\* no bone of that name changes nothing and returns cancelled; otherwise it sets the
\* one field of the one bone and finishes.
C13_BoneEditsGoThroughCommand ==
    /\ WroteBoneRow =>
          /\ bone_items = Stored.bone_items
          /\ objects = last.pre.objects
          /\ bm = last.pre.bm
          /\ LET call == BoneCallOf(Stored, Stored.bone_items[WrittenRow], WrittenField) IN
             IF call = <<>> THEN pose_bones = last.pre.pose_bones
             ELSE /\ "UNDO" \in bl_options(call[1])
                  /\ pose_bones = WithBoneField(last.pre, call[2], call[3],
                                                CommandField(call[1]), call[4])
    /\ last.op \in SetBoneCommands =>
          IF NamedBoneIn(last.pre, last.args[1], last.args[2])
          THEN /\ last.ret = "FINISHED"
               /\ "UNDO" \in bl_options(last.op)
               /\ World = [last.pre EXCEPT !.pose_bones =
                               WithBoneField(last.pre, last.args[1], last.args[2],
                                             CommandField(last.op), last.args[3])]
          ELSE /\ last.ret = "CANCELLED"
               /\ World = last.pre

\* An edit of the rotation of the row of a quaternion-mode bone that changed the bone.
C13_Witness ==
    /\ WroteBoneRow
    /\ WrittenField = "bone_rotation_quaternion"
    /\ pose_bones # last.pre.pose_bones
    /\ pose_bones[active][bone_items[WrittenRow].bone_name].rotation_quaternion = TypedQuat

\* The object a mesh-element row names exists, is a mesh and is in edit mode.
SourceInEditMode(w, item) ==
    /\ item.source_object \in DOMAIN w.objects
    /\ w.objects[item.source_object].type = "MESH"
    /\ w.objects[item.source_object].mode = "EDIT"

\* C14: while the world-space display toggle is on, a write to x, y or z of a
\* mesh-element row leaves every vertex coordinate (and the rest of the scene) as it
\* was; a write to x, y or z changes a vertex only when the toggle is off and the
\* row's source object exists, is a mesh and is in edit mode.
C14_WorldDisplayReadOnly ==
    (WroteElementRow /\ WrittenField \in {"x", "y", "z"}) =>
        /\ last.pre.scn.spreadsheet_show_world_coords => HostOf(World) = HostOf(last.pre)
        /\ bm # last.pre.bm =>
              /\ ~last.pre.scn.spreadsheet_show_world_coords
              /\ SourceInEditMode(last.pre, last.pre.vertex_items[WrittenRow])
        /\ objects = last.pre.objects
        /\ pose_bones = last.pre.pose_bones

\* A write of a new x, with the toggle on, to the row of a vertex that the same write
\* would have moved with the toggle off.
C14_Witness ==
    /\ WroteElementRow
    /\ WrittenField = "x"
    /\ last.pre.scn.spreadsheet_show_world_coords
    /\ SourceInEditMode(last.pre, last.pre.vertex_items[WrittenRow])
    /\ vertex_items[WrittenRow].x = WrittenValue
    /\ LET item == last.pre.vertex_items[WrittenRow] IN
          /\ last.pre.bm[item.source_object].lookup_valid
          /\ int_ok(item.index)
          /\ int(item.index) < Len(last.pre.bm[item.source_object].verts)
          /\ last.pre.bm[item.source_object].verts[int(item.index) + 1].co[1] # WrittenValue

\* The entity behind a row is gone: the object of an object row was deleted, the
\* armature of a bone row was deleted or has no bone of the row's name, the object
\* of a mesh-element row does not exist or the row's index is past the end of the
\* elements the written property addresses.
ObjectRowStale(w, item) == item.obj = None \/ item.obj \notin DOMAIN w.objects

BoneRowStale(w, item) ==
    \/ item.armature_obj = None
    \/ item.armature_obj \notin DOMAIN w.pose_bones
    \/ item.bone_name \notin DOMAIN w.pose_bones[item.armature_obj]

ElementsAddressed(mesh, field) == IF field = "is_sharp" THEN mesh.edges ELSE mesh.verts

ElementRowStale(w, item, field) ==
    \/ item.source_object \notin DOMAIN w.objects
    \/ item.source_object \notin DOMAIN w.bm
    \/ ~int_ok(item.index)
    \/ int(item.index) >= Len(ElementsAddressed(w.bm[item.source_object], field))

\* The rows as they were, but for the value stored in the written property.
RowsKeptButField(before, after) ==
    /\ Len(after) = Len(before)
    /\ \A i \in 1..Len(after) :
          IF i = WrittenRow
          THEN after[i] = [before[i] EXCEPT ![WrittenField] = WrittenValue]
          ELSE after[i] = before[i]

\* C15: a write to a property of a row whose backing entity is gone (deleted object,
\* missing bone, element index out of range) changes nothing of the scene and
\* removes no row: the rows are as before but for the value stored; and after a
\* refresh of a list no row of that list is stale.
C15_StaleWritesDiscarded ==
    /\ (WroteObjectRow /\ ObjectRowStale(last.pre, last.pre.spreadsheet_items[WrittenRow])) =>
          /\ HostOf(World) = HostOf(last.pre)
          /\ RowsKeptButField(last.pre.spreadsheet_items, spreadsheet_items)
    /\ (WroteBoneRow /\ BoneRowStale(last.pre, last.pre.bone_items[WrittenRow])) =>
          /\ HostOf(World) = HostOf(last.pre)
          /\ RowsKeptButField(last.pre.bone_items, bone_items)
    /\ (WroteElementRow
           /\ ElementRowStale(last.pre, last.pre.vertex_items[WrittenRow], WrittenField)) =>
          /\ HostOf(World) = HostOf(last.pre)
          /\ RowsKeptButField(last.pre.vertex_items, vertex_items)
    /\ last.op = "refresh_object_list" =>
          \A i \in 1..Len(spreadsheet_items) : ~ObjectRowStale(World, spreadsheet_items[i])
    /\ last.op = "refresh_bone_list" =>
          \A i \in 1..Len(bone_items) : ~BoneRowStale(World, bone_items[i])
    /\ last.op = "refresh_mesh_element_list" =>
          \A i \in 1..Len(vertex_items) :
              ~ElementRowStale(World, vertex_items[i],
                               IF mesh_select_mode[1] THEN "x" ELSE "is_sharp")

\* A write of x to the row of a vertex that was deleted, in local-space display with
\* the mesh's lookup table valid and the mesh not empty.
C15_Witness ==
    /\ WroteElementRow
    /\ WrittenField = "x"
    /\ ~last.pre.scn.spreadsheet_show_world_coords
    /\ LET item == last.pre.vertex_items[WrittenRow] IN
          /\ SourceInEditMode(last.pre, item)
          /\ last.pre.bm[item.source_object].lookup_valid
          /\ last.pre.bm[item.source_object].verts # <<>>
          /\ ElementRowStale(last.pre, item, "x")

---------------------------------------------------------------------------
(* Properties of the lists across modes *)

\* C16: after a refresh of the bone list and after a run of the change detector, the
\* bone list is non-empty only if the mode is pose and the active object is an
\* armature; in every other condition it is empty.  The same holds of the list a
\* refresh of the bone list would leave if it were called in the current state.
C16_BoneRowsOnlyInPoseMode ==
    /\ last.op \in {"refresh_bone_list", "selection_change_handler"} =>
          (bone_items # <<>> => PoseOnArmature(World))
    /\ refresh_bone_list(World).bone_items # <<>> => PoseOnArmature(World)

\* A run of the change detector outside pose mode that found bone rows and left none.
C16_Witness ==
    /\ last.op = "selection_change_handler"
    /\ ~PoseOnArmature(World)
    /\ last.pre.bone_items # <<>>
    /\ bone_items = <<>>

\* The kind of element a refresh takes, by the selection mode.
KindOf(select_mode) ==
    IF select_mode[1] THEN "verts"
    ELSE IF select_mode[2] THEN "edges"
    ELSE IF select_mode[3] THEN "faces"
    ELSE "none"

\* The selected elements of a kind of the selected meshes in edit mode, as
\* <<object, index>> pairs.
SelectedElements(w, kind) ==
    IF kind = "none" THEN {}
    ELSE {<<n, k>> \in (DOMAIN w.objects) \X (0..(Len(Digits) - 1)) :
             /\ w.objects[n].selected
             /\ w.objects[n].type = "MESH"
             /\ w.objects[n].mode = "EDIT"
             /\ k + 1 \in 1..Len(w.bm[n][kind])
             /\ w.bm[n][kind][k + 1].select}

RowElements(items) == {<<items[i].source_object, int(items[i].index)>> : i \in 1..Len(items)}

\* What a row of a kind holds of the element <<n, k>>: coordinates for a vertex, the
\* sharp flag for an edge, the property defaults for everything else.
RowShows(w, item, kind) ==
    LET n == item.source_object
        k == int(item.index)
    IN IF kind = "verts"
       THEN /\ <<item.x, item.y, item.z>> = w.bm[n].verts[k + 1].co
            /\ item.is_sharp = NewMeshElementItem.is_sharp
       ELSE /\ <<item.x, item.y, item.z>> =
                   <<NewMeshElementItem.x, NewMeshElementItem.y, NewMeshElementItem.z>>
            /\ item.is_sharp = IF kind = "edges" THEN ~w.bm[n].edges[k + 1].smooth
                               ELSE NewMeshElementItem.is_sharp

\* C17: after a refresh of the mesh-element list the rows are, one each, the selected
\* elements of one kind of the selected mesh objects in edit mode, the kind being
\* vertex if the selection mode has its vertex flag, else edge if it has its edge
\* flag, else face; a vertex row holds the vertex's coordinates and no sharp flag, an
\* edge row holds the sharp flag, the negation of the edge's smooth flag, and no
\* coordinates, a face row holds neither.
C17_ElementRowsOfOneKind ==
    last.op = "refresh_mesh_element_list" =>
        /\ \A i \in 1..Len(vertex_items) : int_ok(vertex_items[i].index)
        /\ RowElements(vertex_items) = SelectedElements(World, KindOf(mesh_select_mode))
        /\ Cardinality(RowElements(vertex_items)) = Len(vertex_items)
        /\ \A i \in 1..Len(vertex_items) :
              RowShows(World, vertex_items[i], KindOf(mesh_select_mode))

\* A refresh with both the vertex and the edge flag of the selection mode set, over a
\* mesh with a selected vertex and a selected edge.
C17_Witness ==
    /\ last.op = "refresh_mesh_element_list"
    /\ mesh_select_mode[1] /\ mesh_select_mode[2]
    /\ SelectedElements(World, "verts") # {}
    /\ SelectedElements(World, "edges") # {}
    /\ vertex_items # <<>>

\* The element list emptied, as a refresh of it starts.
ElementListCleared(w) == [w EXCEPT !.vertex_items = <<>>, !.bone_items = <<>>]

\* The world right after the first assignment, "item.x = ...", to the row that a
\* refresh of the element list adds for vertex k of mesh n.
AfterFirstAssignment(w, n, k) ==
    set_vertex_item_x(add_element_row(ElementListCleared(w), n, k), 1,
                      w.bm[n].verts[k + 1].co[1])

\* C18: no edit callback runs against a partially rebuilt row list: between the
\* moment a refresh empties a list and the moment it has repopulated the rows and
\* restored their flags, no update callback of a row of that list writes to the
\* host.  For the element list: at the point where a refresh has added the row of a
\* selected vertex and assigned its first coordinate, the scene is the one the
\* refresh started from.
C18_NoCallbackInsideRefresh ==
    (/\ \/ last.op = "refresh_mesh_element_list"
        \/ /\ last.op = "selection_change_handler"
           /\ last.pre.mode = "EDIT_MESH"
           /\ last.pre.scn.show_spreadsheet_in_edit_mode
     /\ KindOf(last.pre.mesh_select_mode) = "verts") =>
        \A e \in SelectedElements(last.pre, "verts") :
            HostOf(AfterFirstAssignment(last.pre, e[1], e[2])) = HostOf(last.pre)

\* C19: after a run of the change detector that follows a mode change, a selection
\* change or a transform change, in object mode the names of the object rows are
\* the names of the selected objects, and in pose mode with an armature active the
\* names of the bone rows are the names of the selected pose bones, also when the
\* mode was left and entered again with the same selection and transforms.
C19_RowsFollowSelection ==
    last.op = "selection_change_handler" =>
        /\ mode = "OBJECT" => Range(RowObjs(spreadsheet_items)) = SelectedNames(objects)
        /\ PoseOnArmature(World) =>
              Range(RowBones(bone_items)) = SelectedBoneNames(World)

\* An apply with active-only on that succeeded on some of the rows and not on all.
AppliedToSome ==
    /\ Applied
    /\ ~ApplyRaised
    /\ last.pre.scn.active_only[ApplyChannel]
    /\ Candidates # {}
    /\ Candidates # Range(RowObjs(LiveRows(last.pre.spreadsheet_items)))

\* C20: after a batch apply with active-only on that applied to some but not all of
\* the rows, the next run of the change detector leaves every row of before the
\* apply in the object list, with its flags.
C20_RowsSurviveNextNotification ==
    AppliedToSome =>
        LET after == selection_change_handler(World).spreadsheet_items IN
        /\ RowObjs(after) = RowObjs(LiveRows(last.pre.spreadsheet_items))
        /\ \A i \in 1..Len(after) :
              \A j \in SameObjectBefore(after[i], last.pre.spreadsheet_items) :
                  ObjectFlags(after[i]) = ObjectFlags(last.pre.spreadsheet_items[j])

---------------------------------------------------------------------------
(* Properties of the two-way binding of the rows *)

\* The last operation was an edit of a field of an object row in the panel, on a row
\* whose object exists.
EditedObjectRow ==
    /\ last.op = "edit_object_row"
    /\ last.pre.spreadsheet_items[WrittenRow].obj # None

EditedObject == last.pre.spreadsheet_items[WrittenRow].obj

\* The field of a host object that a field of an object row stands for.
HostField(field) == IF field = "rotation" THEN "rotation_euler" ELSE field

\* The row mirrors its object in w: location, rotation in the object's mode, scale.
MirrorsIn(w, item) ==
    /\ item.obj \in DOMAIN w.objects
    /\ item.location = w.objects[item.obj].location
    /\ IF w.objects[item.obj].rotation_mode = "QUATERNION"
       THEN item.rotation_quaternion = w.objects[item.obj].rotation_quaternion
       ELSE item.rotation = w.objects[item.obj].rotation_euler
    /\ item.scale = w.objects[item.obj].scale

\* C21: an edit of the location, rotation or scale of an object row writes the value
\* to that field of the row's object and to nothing else of the scene; the run of
\* the change detector that follows leaves the scene as the edit left it and leaves
\* rows of which the one of the edited object shows the edited value, every row
\* shows its object's location, rotation and scale, and every row has the flags the
\* row of its object had before the edit.
C21_EditReachesHostAndRows ==
    EditedObjectRow =>
        /\ objects = [last.pre.objects EXCEPT
                          ![EditedObject][HostField(WrittenField)] = WrittenValue]
        /\ pose_bones = last.pre.pose_bones
        /\ bm = last.pre.bm
        /\ LET w == selection_change_handler(World) IN
           /\ w.objects = objects
           /\ \E i \in 1..Len(w.spreadsheet_items) :
                 /\ w.spreadsheet_items[i].obj = EditedObject
                 /\ w.spreadsheet_items[i][WrittenField] = WrittenValue
           /\ \A i \in 1..Len(w.spreadsheet_items) :
                 /\ MirrorsIn(w, w.spreadsheet_items[i])
                 /\ SameObjectBefore(w.spreadsheet_items[i], last.pre.spreadsheet_items) # {}
                 /\ \A j \in SameObjectBefore(w.spreadsheet_items[i],
                                               last.pre.spreadsheet_items) :
                       ObjectFlags(w.spreadsheet_items[i]) =
                           ObjectFlags(last.pre.spreadsheet_items[j])

\* An edit of the rotation of the row of a quaternion-mode object, in a list of two
\* rows one of which has a flag switched off, that the change detector then sees.
C21_Witness ==
    /\ EditedObjectRow
    /\ WrittenField = "rotation_quaternion"
    /\ Len(spreadsheet_items) = 2
    /\ \E i \in 1..Len(spreadsheet_items) : ObjectFlags(spreadsheet_items[i]) # AllOn
    /\ objects[EditedObject].rotation_quaternion = TypedQuat
    /\ last.pre.objects[EditedObject].rotation_quaternion # TypedQuat
    /\ snapshot_differs(World, current_selected_of(World), current_transforms_of(World))

\* The scene: the objects with their transforms, selection and mode, the pose bones,
\* the edit meshes, the mode, the active object and the mesh select mode.
SceneOf(w) == <<w.objects, w.pose_bones, w.bm, w.mode, w.active, w.mesh_select_mode>>

\* The last operation was a refresh of one of the three lists, called directly.
Refreshed ==
    last.op \in {"refresh_object_list", "refresh_bone_list", "refresh_mesh_element_list"}

\* C22: a refresh of the object list, of the bone list or of the element list, with
\* the update callbacks that its assignments to the rows fire, returns with the scene
\* it started from: the location, rotation and scale of every object and pose bone,
\* the coordinates of every vertex, the smooth flag of every edge and the selection,
\* both after a refresh that was called and for the refresh that could be called in
\* the present state.  The index of a mesh element is its position in the mesh, as
\* the host keeps it when its element indices are up to date.
C22_RefreshLeavesSceneAlone ==
    /\ Refreshed => SceneOf(World) = SceneOf(last.pre)
    /\ mode = "OBJECT" => SceneOf(refresh_object_list(World)) = SceneOf(World)
    /\ mode = "POSE" => SceneOf(refresh_bone_list(World)) = SceneOf(World)
    /\ mode = "EDIT_MESH" => SceneOf(refresh_mesh_element_list(World)) = SceneOf(World)

\* A refresh of the element list that returned after the callback of the first
\* coordinate of a vertex row had moved the vertex.
C22_Witness ==
    /\ last.op = "refresh_mesh_element_list"
    /\ KindOf(last.pre.mesh_select_mode) = "verts"
    /\ \E e \in SelectedElements(last.pre, "verts") :
          HostOf(AfterFirstAssignment(last.pre, e[1], e[2])) # HostOf(last.pre)
    /\ vertex_items # <<>>

====
